---- MODULE Spec2Model ----
(***************************************************************************)
(* Model of github.com/deckhouse/lib-dhctl, package pkg/yaml/validation:   *)
(* the Validator registry (schemas, pre-validators, version fallbacks,     *)
(* transformers, extension validators) and the ValidateWithIndex pipeline. *)
(***************************************************************************)
EXTENDS Integers, Sequences, FiniteSets, TLC

(***************************************************************************)
(* Bounds of the model.                                                    *)
(***************************************************************************)
\* number of registration calls (AddSchema, AddPreValidator, ...) in a run
MaxSetup == 2

(***************************************************************************)
(* Generic values: what yaml.Unmarshal yields for a document (a decoded    *)
(* map[string]interface{}), as uniformly shaped records.                   *)
(***************************************************************************)
StrV(x) == [t |-> "string", s |-> x, n |-> 0, o |-> <<>>, a |-> <<>>]
IntV(x) == [t |-> "integer", s |-> "", n |-> x, o |-> <<>>, a |-> <<>>]
ObjV(f) == [t |-> "object", s |-> "", n |-> 0, o |-> f, a |-> <<>>]
ArrV(q) == [t |-> "array", s |-> "", n |-> 0, o |-> <<>>, a |-> q]

\* every field name of the model, in the byte order json.Marshal sorts map keys
AllFields ==
  <<"apiVersion", "extra", "key", "kind", "passphrase", "sshAgentPrivateKeys",
    "sshPort", "sshUser", "value", "valueEnum">>

SortedKeys(S) == SelectSeq(AllFields, LAMBDA k : k \in S)

(***************************************************************************)
(* Document bytes.  enc is the concrete syntax of the bytes, order the     *)
(* textual order of the top-level keys, data what the bytes decode to.     *)
(***************************************************************************)
YamlBytes(order, f) == [enc |-> "yaml", order |-> order, data |-> ObjV(f)]
GarbageBytes == [enc |-> "garbage", order |-> <<>>, data |-> ObjV(<<>>)]

\* sigs.k8s.io/yaml.Unmarshal into map[string]interface{}
yamlUnmarshal(bytes) ==
  IF bytes.enc = "garbage"
    THEN [ok |-> FALSE, data |-> ObjV(<<>>)]
    ELSE [ok |-> TRUE, data |-> bytes.data]

\* encoding/json.Marshal of a map: compact JSON, keys sorted
jsonMarshal(v) == [enc |-> "json", order |-> SortedKeys(DOMAIN v.o), data |-> v]

(***************************************************************************)
(* spec.Schema trees.  A pointer is a sequence of length 0 (nil) or 1.     *)
(*   ap     AdditionalProperties: "unset" (nil), "true", "false"           *)
(*   props  Properties, field name -> node                                 *)
(*   items  Items.Schema as a pointer; itemSchemas  Items.Schemas          *)
(*   ext    Extensions, attribute name -> list of rule names               *)
(***************************************************************************)
Node(type, ap, props, items, default, required, ext) ==
  [type |-> type, ap |-> ap, props |-> props, items |-> items,
   itemSchemas |-> <<>>, default |-> default, required |-> required,
   ext |-> ext]

Leaf(type) == Node(type, "unset", <<>>, <<>>, <<>>, {}, <<>>)
LeafDefault(type, d) == Node(type, "unset", <<>>, <<>>, <<d>>, {}, <<>>)

xRulesExtension == "x-rules"

\* items of sshAgentPrivateKeys in testSchemaTestKind
PrivateKeySchema ==
  Node("object", "false",
       ("key" :> Leaf("string")) @@ ("passphrase" :> Leaf("string")),
       <<>>, <<>>, {"key"}, (xRulesExtension :> <<"passphrase">>))

\* property value of testSchemaAnotherTestKind: explicitly open object
ValueSchema ==
  Node("object", "true", ("valueEnum" :> LeafDefault("string", StrV("AWS"))),
       <<>>, <<>>, {}, <<>>)

\* testSchemaTestKind (with the value property of testSchemaAnotherTestKind)
SchemaTestKind ==
  Node("object", "false",
       ("kind" :> Leaf("string")) @@ ("apiVersion" :> Leaf("string")) @@
       ("sshPort" :> LeafDefault("integer", IntV(22))) @@
       ("sshAgentPrivateKeys" :>
          Node("array", "unset", <<>>, <<PrivateKeySchema>>, <<>>, {}, <<>>)) @@
       ("value" :> ValueSchema),
       <<>>, <<>>, {"kind", "apiVersion"}, <<>>)

\* a schema whose root declares no additionalProperties, with another default
SchemaOpenKind ==
  Node("object", "unset",
       ("kind" :> Leaf("string")) @@ ("apiVersion" :> Leaf("string")) @@
       ("sshPort" :> Leaf("integer")) @@
       ("sshUser" :> LeafDefault("string", StrV("root"))),
       <<>>, <<>>, {}, <<>>)

SchemaPool == {SchemaTestKind, SchemaOpenKind}

(***************************************************************************)
(* transformer.AdditionalPropertiesTransformer.  A transformer value is    *)
(* "AdditionalProperties" (NewAdditionalPropertiesTransformer),            *)
(* "AdditionalPropertiesDisallowFull" or "nil" (a nil list entry).         *)
(* Transform writes through the pointer it is given: the tree it returns   *)
(* is the tree the caller's pointer now designates.                        *)
(***************************************************************************)
TransformerPool == {"AdditionalProperties", "AdditionalPropertiesDisallowFull", "nil"}

\* a transformer for which no variant is the full one
disallowNever(t) == FALSE

disallowFull(t) == t = "AdditionalPropertiesDisallowFull"

shouldDisallowAdditionalProperties(t, s) ==
  IF s.ap = "unset" THEN TRUE ELSE disallowFull(t)

\* a write that flips the declaration instead of closing the node
flipAdditionalProperties(s) ==
  [s EXCEPT !.ap = IF s.ap = "false" THEN "true" ELSE "false"]

disallowAdditionalProperties(s) == [s EXCEPT !.ap = "false"]

RECURSIVE Transform(_, _)
Transform(t, s) ==
  LET s1 == IF shouldDisallowAdditionalProperties(t, s)
              THEN disallowAdditionalProperties(s) ELSE s
      props == [k \in DOMAIN s1.props |->
                  IF shouldDisallowAdditionalProperties(t, s1.props[k])
                    THEN Transform(t, disallowAdditionalProperties(s1.props[k]))
                    ELSE s1.props[k]]
      items == IF s1.items # <<>> THEN <<Transform(t, s1.items[1])>> ELSE <<>>
      itemSchemas == [i \in DOMAIN s1.itemSchemas |-> Transform(t, s1.itemSchemas[i])]
  IN  [s1 EXCEPT !.props = props, !.items = items, !.itemSchemas = itemSchemas]

(***************************************************************************)
(* Structural validation and defaulting (go-openapi validate/post), as     *)
(* openAPIValidate uses them: all violations of a value against a schema,  *)
(* and the value with the declared defaults of its absent fields.          *)
(***************************************************************************)
RECURSIVE Violations(_, _)
Violations(v, s) ==
  IF s.type # "" /\ v.t # s.type THEN {<<"type", s.type>>}
  ELSE IF v.t = "object" THEN
    {<<"required", k>> : k \in (s.required \ DOMAIN v.o)}
    \cup {<<"additional", k>> :
            k \in {x \in DOMAIN v.o : x \notin DOMAIN s.props /\ s.ap = "false"}}
    \cup UNION {Violations(v.o[k], s.props[k]) : k \in (DOMAIN v.o \cap DOMAIN s.props)}
  ELSE IF v.t = "array" THEN
    UNION {IF s.items # <<>> THEN Violations(v.a[i], s.items[1])
           ELSE IF i \in DOMAIN s.itemSchemas THEN Violations(v.a[i], s.itemSchemas[i])
           ELSE {} : i \in DOMAIN v.a}
  ELSE {}

\* ApplyDefaults left out: the data as decoded
ApplyNoDefaults(v, s) == v

RECURSIVE ApplyDefaults(_, _)
ApplyDefaults(v, s) ==
  IF v.t # "object" THEN v
  ELSE LET defaulted == {k \in DOMAIN s.props : s.props[k].default # <<>>}
       IN  [v EXCEPT !.o =
             [k \in (DOMAIN v.o \cup defaulted) |->
                IF k \in DOMAIN v.o
                  THEN IF k \in DOMAIN s.props
                         THEN ApplyDefaults(v.o[k], s.props[k]) ELSE v.o[k]
                  ELSE s.props[k].default[1]]]

(***************************************************************************)
(* Errors.  An error is the chain of messages errors.Unwrap walks, the     *)
(* outermost first; nil is the empty chain.  fmt.Errorf with %w puts a     *)
(* message in front of the chain, with %v it starts a new chain.           *)
(***************************************************************************)
NoErr == <<>>
Wrap(msg, err) == <<msg>> \o err
errorsIs(err, target) == \E i \in DOMAIN err : err[i] = target

ErrSchemaNotFound == "schema not found"

\* the failure kinds (ErrorKind), and the read failure of ParseIndex / LoadSchemas
ErrKindValidationFailed == "ValidationFailed"
ErrKindInvalidYAML == "InvalidYAML"
ErrRead == "ErrRead"

(***************************************************************************)
(* ExtensionsValidator: name is the extension attribute it reads,          *)
(* validators the rule names it has a handler for.  A data fragment        *)
(* (json.RawMessage) is a pointer: empty when the field is absent.         *)
(***************************************************************************)
NewExtensionsValidator(extensionName, validators) ==
  [name |-> extensionName, validators |-> validators]

NewXRulesExtensionsValidator(validators) ==
  NewExtensionsValidator(xRulesExtension, validators)

\* the strings of the model that contain one of ".!@"
Punctuated == {"!not@secret."}

\* the handler bound to "passphrase" in assertPassphraseExtensions
Handler(rule, frag) ==
  IF frag = <<>> \/ frag[1].t # "object" THEN <<"json unmarshal">>
  ELSE IF "passphrase" \in DOMAIN frag[1].o /\ frag[1].o["passphrase"].t # "string"
    THEN <<"json unmarshal">>
  ELSE IF "passphrase" \in DOMAIN frag[1].o /\ frag[1].o["passphrase"].s \in Punctuated
    THEN NoErr
  ELSE <<"invalid passphrase">>

\* one handler invocation as it shows in the trace of a call
HandlerCall(rule, frag) == <<IF frag = <<>> THEN "handler:empty" ELSE "handler", rule>>

GetStringSlice(s, name) == IF name \in DOMAIN s.ext THEN s.ext[name] ELSE <<>>

\* results of the rule engine: the error (nil when none) and the handler calls made
Done == [err |-> NoErr, calls |-> <<>>]
Failed(e) == [err |-> e, calls |-> <<>>]
Invoke(rule, frag) ==
  [err |-> Handler(rule, frag), calls |-> <<HandlerCall(rule, frag)>>]

\* r, and next after it unless r returned an error
Then(r, next) ==
  IF r.err # NoErr THEN r ELSE [err |-> next.err, calls |-> r.calls \o next.calls]

\* an error handed up without the name of the field
UnderNoName(field, r) == r

\* fmt.Errorf("%s: %w", field, err) on the error of r
Under(field, r) ==
  IF r.err # NoErr THEN [r EXCEPT !.err = Wrap(field, r.err)] ELSE r

\* the rules of a node run against one fragment, stopping at the first error
RECURSIVE runRules(_, _, _)
runRules(ev, rules, frag) ==
  IF rules = <<>> THEN Done
  ELSE Then(IF Head(rules) \in ev.validators THEN Invoke(Head(rules), frag) ELSE Done,
            runRules(ev, Tail(rules), frag))

\* a loop over the items that returns after its first item
runItemsFirstOnly(rule, items) ==
  IF items = <<>> THEN Done ELSE Invoke(rule, <<Head(items)>>)

\* one rule run against every item of a list, stopping at the first error
RECURSIVE runItems(_, _)
runItems(rule, items) ==
  IF items = <<>> THEN Done
  ELSE Then(Invoke(rule, <<Head(items)>>), runItems(rule, Tail(items)))

\* the rules of an array item schema: the loop of validateData over them
RECURSIVE runItemRules(_, _, _)
runItemRules(ev, rules, frag) ==
  IF rules = <<>> THEN Done
  ELSE IF Head(rules) \notin ev.validators THEN runItemRules(ev, Tail(rules), frag)
  ELSE IF frag = <<>> THEN Done
  ELSE IF frag[1].t # "array" THEN Failed(<<"json unmarshal">>)
  ELSE Then(runItems(Head(rules), frag[1].a), runItemRules(ev, Tail(rules), frag))

validateData(ev, frag, schema) ==
  Then(runRules(ev, GetStringSlice(schema, ev.name), frag),
       IF schema.items = <<>> THEN Done
       ELSE runItemRules(ev, GetStringSlice(schema.items[1], ev.name), frag))

\* the order in which one range over schema.Properties visits the fields
FieldOrder(S, rev) ==
  LET asc == SortedKeys(S)
  IN  IF rev THEN [i \in DOMAIN asc |-> asc[Len(asc) + 1 - i]] ELSE asc

\* properties[field] of ExtensionsValidator.Validate
Fragment(frag, field) ==
  IF frag # <<>> /\ field \in DOMAIN frag[1].o THEN <<frag[1].o[field]>> ELSE <<>>

RECURSIVE extValidate(_, _, _, _)
RECURSIVE extFields(_, _, _, _, _)
extValidate(ev, frag, schema, rev) ==
  IF DOMAIN schema.props = {} THEN Done
  ELSE IF frag # <<>> /\ frag[1].t # "object" THEN Failed(<<"yaml unmarshal">>)
  ELSE Then(validateData(ev, frag, schema),
            extFields(ev, frag, schema, FieldOrder(DOMAIN schema.props, rev), rev))

extFields(ev, frag, schema, fields, rev) ==
  IF fields = <<>> THEN Done
  ELSE Then(Under(Head(fields),
                  Then(validateData(ev, Fragment(frag, Head(fields)),
                                    schema.props[Head(fields)]),
                       extValidate(ev, Fragment(frag, Head(fields)),
                                   schema.props[Head(fields)], rev))),
            extFields(ev, frag, schema, Tail(fields), rev))

\* the loop of openAPIValidate over v.extensionsValidators
RECURSIVE runExtensionsValidators(_, _, _, _)
runExtensionsValidators(evs, frag, schema, rev) ==
  IF evs = <<>> THEN Done
  ELSE Then(extValidate(Head(evs), frag, schema, rev),
            runExtensionsValidators(Tail(evs), frag, schema, rev))

(***************************************************************************)
(* SchemaIndex                                                             *)
(***************************************************************************)
SchemaIndex(kind, version) == [Kind |-> kind, Version |-> version]

IsValid(i) == i.Kind # "" /\ i.Version # ""

Versions == {"deckhouse.io/v1alpha1", "deckhouse.io/v1", "test"}

indexTestKind == SchemaIndex("TestKind", "deckhouse.io/v1")

\* the keys the registration calls of the model use
RegIndexes ==
  {SchemaIndex("TestKind", v) : v \in {"deckhouse.io/v1alpha1", "deckhouse.io/v1"}}

\* the indexes handed to ValidateWithIndex, two of them incomplete
IndexInputs ==
  {SchemaIndex("TestKind", v) : v \in Versions}
  \cup {SchemaIndex("", "deckhouse.io/v1"), SchemaIndex("TestKind", "")}

\* the version fallbacks AddVersionFallback registers in the model
FallbackPool ==
  {<<"test", "deckhouse.io/v1alpha1">>, <<"test", "deckhouse.io/v1">>,
   <<"test", "">>, <<"deckhouse.io/v1alpha1", "">>}

(***************************************************************************)
(* Documents of the model: a header (kind, apiVersion) and a payload.      *)
(***************************************************************************)
PrivateKeys(passphrase) ==
  ArrV(<<ObjV(("key" :> StrV("mykey")) @@ ("passphrase" :> StrV(passphrase)))>>)

Payloads ==
  { <<>>,
    ("sshPort" :> IntV(22456)),
    ("sshPort" :> StrV("port")),
    ("sshPort" :> IntV(22456)) @@ ("value" :> ObjV(("extra" :> StrV("invalid")))),
    ("sshPort" :> IntV(22456)) @@ ("sshAgentPrivateKeys" :> PrivateKeys("!not@secret.")),
    ("sshPort" :> IntV(22456)) @@ ("sshAgentPrivateKeys" :> PrivateKeys("not secret")) }

Header(i) ==
  (IF i.Version # "" THEN ("apiVersion" :> StrV(i.Version)) ELSE <<>>)
  @@ (IF i.Kind # "" THEN ("kind" :> StrV(i.Kind)) ELSE <<>>)

Document(i, payload) ==
  YamlBytes(SortedKeys(DOMAIN Header(i)) \o SortedKeys(DOMAIN payload),
            Header(i) @@ payload)

\* documents handed to ValidateWithIndex; their header names indexTestKind
DocPool == {Document(indexTestKind, p) : p \in Payloads} \cup {GarbageBytes}

\* documents handed to Validate, which reads the index from the document
ValidateDocPool ==
  {Document(i, p) : i \in IndexInputs, p \in {<<>>, ("sshPort" :> IntV(22456))}}
  \cup {GarbageBytes}

(***************************************************************************)
(* validateOptions                                                         *)
(***************************************************************************)
validateOptions(omitDocInError, strictUnmarshal, noPrettyError) ==
  [omitDocInError |-> omitDocInError, strictUnmarshal |-> strictUnmarshal,
   noPrettyError |-> noPrettyError]

OptionPool ==
  {validateOptions(FALSE, FALSE, FALSE), validateOptions(FALSE, FALSE, TRUE),
   validateOptions(TRUE, FALSE, FALSE)}

(***************************************************************************)
(* Pre-validators: testKindPreValidator, with or without a schema of its   *)
(* own; a pre-validator that provides its own schema whatever the current  *)
(* one is; and a typed nil pointer registered as a PreValidator.           *)
(***************************************************************************)
newTestKindPreValidator(mySchema) ==
  [isNil |-> FALSE, mySchema |-> mySchema, always |-> FALSE]
OwnSchemaPreValidator(mySchema) ==
  [isNil |-> FALSE, mySchema |-> mySchema, always |-> TRUE]
NilPreValidator == [isNil |-> TRUE, mySchema |-> <<>>, always |-> FALSE]

PreValidatorPool ==
  {newTestKindPreValidator(<<>>), newTestKindPreValidator(<<SchemaOpenKind>>),
   OwnSchemaPreValidator(<<SchemaOpenKind>>), NilPreValidator}

\* PreValidator.Validate: the schema to go on with (own: it is the pre-validator's
\* object, not the one it was given), or an error
PreValidate(p, bytes, currentSchema) ==
  LET u == yamlUnmarshal(bytes)
      port == IF "sshPort" \in DOMAIN u.data.o THEN u.data.o["sshPort"] ELSE IntV(0)
      own == p.always \/ currentSchema = <<>>
  IN  IF ~u.ok \/ port.t # "integer"
        THEN [schema |-> <<>>, own |-> FALSE, err |-> <<"pre-validator: unmarshal">>]
      ELSE IF port.n >= 22000 /\ port.n < 30000
        THEN [schema |-> IF own THEN p.mySchema ELSE currentSchema,
              own |-> own, err |-> NoErr]
      ELSE [schema |-> <<>>, own |-> FALSE, err |-> <<"invalid SSH port">>]

(***************************************************************************)
(* The Validator.  Go maps are functions on the set of their keys.         *)
(***************************************************************************)
VARIABLES
  schemas,               \* map[SchemaIndex]*spec.Schema
  preValidators,         \* map[SchemaIndex]PreValidator
  versionFallbacks,      \* map[string]string
  transformers,          \* map[SchemaIndex][]transformer.SchemaTransformer
  defaultTransformers,   \* []transformer.SchemaTransformer
  extensionsValidators,  \* []*ExtensionsValidator
  nsetup,                \* registration calls made so far
  last,                  \* the latest call of Validate / ValidateWithIndex
  running,               \* the validation calls in flight on concurrent goroutines
  pure,                  \* the latest call of a function that has no receiver state
  loop,                  \* a retry.Loop, the run of it in progress and its surroundings
  tee                    \* a log.TeeLogger with its writer and the logger it wraps

registry == <<schemas, preValidators, versionFallbacks, transformers,
              defaultTransformers, extensionsValidators>>
vars == <<schemas, preValidators, versionFallbacks, transformers,
          defaultTransformers, extensionsValidators, nsetup, last, running, pure, loop, tee>>

\* a map write that leaves an entry already present as it is
PutIfAbsent(m, k, v) == m @@ (k :> v)

Put(m, k, v) == (k :> v) @@ m

Get(index) == IF index \in DOMAIN schemas THEN schemas[index] ELSE <<>>

\* a step of a call as the trace of the call records it
Step(name, detail) == <<name, detail>>

\* a resolution that looks the index up and never consults the fallbacks
getSchemaDirectOnly(index) ==
  [schema |-> Get(index), index |-> index, trace |-> <<Step("Get", index.Version)>>]

\* a resolution that follows the fallback of the fallback as well
getSchemaChainedFallback(index) ==
  LET next(i) == IF i.Version \in DOMAIN versionFallbacks
                   THEN [i EXCEPT !.Version = versionFallbacks[i.Version]]
                   ELSE [i EXCEPT !.Version = ""]
      i1 == next(index)
      i2 == next(i1)
      g0 == <<Step("Get", index.Version)>>
      g1 == g0 \o <<Step("Get", i1.Version)>>
  IN  IF Get(index) # <<>> \/ i1.Version = ""
        THEN [schema |-> Get(index), index |-> index, trace |-> g0]
      ELSE IF Get(i1) # <<>> \/ i2.Version = ""
        THEN [schema |-> Get(i1), index |-> i1, trace |-> g1]
      ELSE [schema |-> Get(i2), index |-> i2,
            trace |-> g1 \o <<Step("Get", i2.Version)>>]

\* a resolution that looks under the fallback and leaves the index as it was given
getSchemaKeepingIndex(index) ==
  LET ok == index.Version \in DOMAIN versionFallbacks
      fallback == IF ok THEN versionFallbacks[index.Version] ELSE ""
  IN  IF Get(index) # <<>> \/ ~ok \/ fallback = ""
        THEN [schema |-> Get(index), index |-> index,
              trace |-> <<Step("Get", index.Version)>>]
      ELSE [schema |-> Get([index EXCEPT !.Version = fallback]), index |-> index,
            trace |-> <<Step("Get", index.Version), Step("Get", fallback)>>]

getSchemaWithFallback(index) ==
  LET schema == Get(index)
      ok == index.Version \in DOMAIN versionFallbacks
      fallback == IF ok THEN versionFallbacks[index.Version] ELSE ""
      rewritten == [index EXCEPT !.Version = fallback]
  IN  IF schema # <<>>
        THEN [schema |-> schema, index |-> index,
              trace |-> <<Step("Get", index.Version)>>]
      ELSE IF ~ok \/ fallback = ""
        THEN [schema |-> <<>>, index |-> index,
              trace |-> <<Step("Get", index.Version)>>]
      ELSE [schema |-> Get(rewritten), index |-> rewritten,
            trace |-> <<Step("Get", index.Version), Step("Get", fallback)>>]

\* a selection that appends the default list to the list of the index
selectTransformersCombined(index) ==
  (IF index \in DOMAIN transformers THEN transformers[index] ELSE <<>>)
    \o defaultTransformers

\* a selection that prefers the list of a version that falls back to the index's
selectTransformersBeforeFallback(index) ==
  LET from == {i \in DOMAIN transformers :
                 /\ i.Kind = index.Kind
                 /\ i.Version \in DOMAIN versionFallbacks
                 /\ versionFallbacks[i.Version] = index.Version
                 /\ Len(transformers[i]) > 0}
      ts == IF index \in DOMAIN transformers THEN transformers[index] ELSE <<>>
  IN  IF from # {} THEN transformers[CHOOSE i \in from : TRUE]
      ELSE IF Len(ts) = 0 THEN defaultTransformers ELSE ts

\* the list addTransformersForSchema ranges over
selectTransformers(index) ==
  LET ts == IF index \in DOMAIN transformers THEN transformers[index] ELSE <<>>
  IN  IF Len(ts) = 0 THEN defaultTransformers ELSE ts

\* a loop that applies every transformer a second time
RECURSIVE applyTransformersTwice(_, _)
applyTransformersTwice(ts, schema) ==
  IF ts = <<>> THEN [schema |-> schema, trace |-> <<>>]
  ELSE IF Head(ts) = "nil" THEN applyTransformersTwice(Tail(ts), schema)
  ELSE LET r == applyTransformersTwice(
                  Tail(ts), Transform(Head(ts), Transform(Head(ts), schema)))
       IN  [schema |-> r.schema,
            trace |-> <<Step("Transform", Head(ts)), Step("Transform", Head(ts))>>
                        \o r.trace]

RECURSIVE applyTransformers(_, _)
applyTransformers(ts, schema) ==
  IF ts = <<>> THEN [schema |-> schema, trace |-> <<>>]
  ELSE IF Head(ts) = "nil" THEN applyTransformers(Tail(ts), schema)
  ELSE LET r == applyTransformers(Tail(ts), Transform(Head(ts), schema))
       IN  [schema |-> r.schema, trace |-> <<Step("Transform", Head(ts))>> \o r.trace]

addTransformersForSchema(index, schema) ==
  applyTransformers(selectTransformers(index), schema)

\* a validation that runs the extension validators before the structural check
openAPIValidateExtensionsFirst(dataBytes, schema, options, rev) ==
  LET u == yamlUnmarshal(dataBytes)
      violations == Violations(u.data, schema)
      ext == runExtensionsValidators(extensionsValidators, <<u.data>>, schema, rev)
      tUnmarshal == <<Step("Unmarshal", "")>>
      tExt == tUnmarshal \o ext.calls
  IN  IF ~u.ok
        THEN [isValid |-> FALSE, dataObj |-> dataBytes, trace |-> tUnmarshal,
              err |-> <<"openAPIValidate json unmarshal">>]
      ELSE IF ext.err # NoErr
        THEN [isValid |-> FALSE, dataObj |-> dataBytes, trace |-> tExt, err |-> ext.err]
      ELSE IF violations # {}
        THEN [isValid |-> FALSE, dataObj |-> dataBytes,
              trace |-> tExt \o <<Step("Validate", "")>>, err |-> <<"multierror">>]
      ELSE [isValid |-> TRUE, dataObj |-> jsonMarshal(ApplyDefaults(u.data, schema)),
            trace |-> tExt \o <<Step("Validate", ""), Step("ApplyDefaults", "")>>,
            err |-> NoErr]

openAPIValidate(dataBytes, schema, options, rev) ==
  LET u == yamlUnmarshal(dataBytes)
      violations == Violations(u.data, schema)
      ext == runExtensionsValidators(extensionsValidators, <<u.data>>, schema, rev)
      tUnmarshal == <<Step("Unmarshal", "")>>
      tValidate == tUnmarshal \o <<Step("Validate", "")>>
  IN  IF ~u.ok
        THEN [isValid |-> FALSE, dataObj |-> dataBytes, trace |-> tUnmarshal,
              err |-> IF options.strictUnmarshal
                        THEN <<"openAPIValidate json unmarshal strict">>
                        ELSE <<"openAPIValidate json unmarshal">>]
      ELSE IF violations # {}
        THEN [isValid |-> FALSE, dataObj |-> dataBytes, trace |-> tValidate,
              err |-> <<"multierror">>]
      ELSE IF ext.err # NoErr
        THEN [isValid |-> FALSE, dataObj |-> dataBytes,
              trace |-> tValidate \o ext.calls, err |-> ext.err]
      ELSE [isValid |-> TRUE, dataObj |-> jsonMarshal(ApplyDefaults(u.data, schema)),
            trace |-> tValidate \o ext.calls \o <<Step("ApplyDefaults", "")>>,
            err |-> NoErr]

\* an error of ValidateWithIndex: its chain and whether its text holds the document
Error(chain, doc) == [chain |-> chain, doc |-> doc]
Nil == Error(NoErr, FALSE)

(***************************************************************************)
(* ValidateWithIndex.  The result holds what the caller sees (err, doc,    *)
(* index), the steps taken, and the registry maps as the call leaves them: *)
(* the transformers write through the schema pointer they are given.       *)
(***************************************************************************)
\* a pre-validator step whose error comes back wrapped
runPreValidatorWrapsError(at, doc, schema) ==
  IF at \in DOMAIN preValidators /\ ~preValidators[at].isNil
    THEN LET r == PreValidate(preValidators[at], doc, schema)
         IN  [schema |-> r.schema, own |-> r.own,
              err |-> IF r.err = NoErr THEN NoErr ELSE Wrap("pre-validation failed", r.err),
              trace |-> <<Step("PreValidator", "")>>]
    ELSE [schema |-> schema, own |-> FALSE, err |-> NoErr, trace |-> <<>>]

\* a pre-validator step that checks the document but goes on with the schema it had
runPreValidatorKeepsCurrent(at, doc, schema) ==
  IF at \in DOMAIN preValidators /\ ~preValidators[at].isNil
    THEN [schema |-> schema, own |-> FALSE,
          err |-> PreValidate(preValidators[at], doc, schema).err,
          trace |-> <<Step("PreValidator", "")>>]
    ELSE [schema |-> schema, own |-> FALSE, err |-> NoErr, trace |-> <<>>]

\* a pre-validator step that is skipped when resolution found no schema
runPreValidatorOnlyWithSchema(at, doc, schema) ==
  IF at \in DOMAIN preValidators /\ ~preValidators[at].isNil /\ schema # <<>>
    THEN PreValidate(preValidators[at], doc, schema)
           @@ [trace |-> <<Step("PreValidator", "")>>]
    ELSE [schema |-> schema, own |-> FALSE, err |-> NoErr, trace |-> <<>>]

\* the pre-validator registered for the index, invoked unless it is nil
runPreValidator(at, doc, schema) ==
  IF at \in DOMAIN preValidators /\ ~preValidators[at].isNil
    THEN PreValidate(preValidators[at], doc, schema)
           @@ [trace |-> <<Step("PreValidator", "")>>]
    ELSE [schema |-> schema, own |-> FALSE, err |-> NoErr, trace |-> <<>>]

\* finish with the document written back whether or not validation passed
finishWritesBack(doc, options, res) ==
  IF ~res.isValid
    THEN [doc |-> jsonMarshal(yamlUnmarshal(doc).data),
          err |-> Error(Wrap("document validation failed", res.err), FALSE),
          trace |-> <<>>]
    ELSE [doc |-> res.dataObj, err |-> Nil, trace |-> <<Step("Overwrite", "")>>]

\* what the call hands back once openAPIValidate has returned
finish(doc, options, res) ==
  IF ~res.isValid
    THEN [doc |-> doc,
          err |-> IF options.omitDocInError \/ options.noPrettyError
                    THEN Error(Wrap("document validation failed", res.err), FALSE)
                    ELSE Error(Wrap("Document validation failed:", res.err), TRUE),
          trace |-> <<>>]
    ELSE [doc |-> res.dataObj, err |-> Nil, trace |-> <<Step("Overwrite", "")>>]

ValidateWithIndex(index, doc, options, rev) ==
  LET found == getSchemaWithFallback(index)
      at == found.index
      pre == runPreValidator(at, doc, found.schema)
      t1 == <<Step("IsValid", "")>>
      t3 == t1 \o found.trace \o pre.trace
      t4 == t3 \o <<Step("NilCheck", "")>>
      tr == addTransformersForSchema(at, pre.schema[1])
      res == openAPIValidate(doc, tr.schema, options, rev)
      end == finish(doc, options, res)
      same == [doc |-> doc, schemas |-> schemas, preValidators |-> preValidators,
               used |-> <<>>]
  IN  IF ~IsValid(index)
        THEN same @@ [err |-> Error(<<"document must contain kind and apiVersion">>, TRUE),
                      index |-> index, trace |-> t1]
      ELSE IF pre.err # NoErr
        THEN same @@ [err |-> Error(pre.err, FALSE), index |-> at, trace |-> t3]
      ELSE IF pre.schema = <<>>
        THEN same @@ [err |-> Error(<<ErrSchemaNotFound>>, FALSE), index |-> at,
                      trace |-> t4]
      ELSE [doc |-> end.doc, err |-> end.err, index |-> at,
            trace |-> t4 \o tr.trace \o res.trace \o end.trace,
            used |-> <<tr.schema>>,
            schemas |-> IF pre.own THEN schemas
                        ELSE [schemas EXCEPT ![at] = <<tr.schema>>],
            preValidators |-> IF pre.own
                        THEN [preValidators EXCEPT ![at].mySchema = <<tr.schema>>]
                        ELSE preValidators]

\* yaml.Unmarshal(*doc, &index) of Validate
unmarshalIndex(bytes) ==
  LET u == yamlUnmarshal(bytes)
      field(k) == IF k \in DOMAIN u.data.o /\ u.data.o[k].t = "string"
                    THEN u.data.o[k].s ELSE ""
  IN  [ok |-> u.ok, index |-> SchemaIndex(field("kind"), field("apiVersion"))]

Validate(doc, options, rev) ==
  LET u == unmarshalIndex(doc)
  IN  IF ~u.ok
        THEN [doc |-> doc, schemas |-> schemas, preValidators |-> preValidators,
              used |-> <<>>, index |-> u.index, trace |-> <<>>,
              err |-> Error(Wrap("Schema index unmarshal failed", <<"yaml">>), FALSE)]
        ELSE ValidateWithIndex(u.index, doc, options, rev)

(***************************************************************************)
(* The state machine: registration calls and validation calls on one       *)
(* Validator.  last records the latest validation call: what it was given  *)
(* (in), the maps it may write as they were before it (pre), its result.   *)
(***************************************************************************)
NoCall ==
  [op |-> "none", index |-> SchemaIndex("", ""), doc |-> GarbageBytes,
   options |-> validateOptions(FALSE, FALSE, FALSE),
   schemas |-> <<>>, preValidators |-> <<>>,
   out |-> [doc |-> GarbageBytes, schemas |-> <<>>, preValidators |-> <<>>,
            used |-> <<>>, index |-> SchemaIndex("", ""), trace |-> <<>>,
            err |-> Nil]]

\* the goroutines that call into one Validator at the same time
MaxCalls == 2
CallIds == 1..MaxCalls

\* what a caller sees of a call: the document, the error, the index
Outcome(doc, err, index) == [doc |-> doc, err |-> err, index |-> index]
NoOutcome == Outcome(GarbageBytes, Nil, SchemaIndex("", ""))

\* a goroutine that has not called yet
Idle ==
  [pc |-> "idle", index |-> SchemaIndex("", ""), doc |-> GarbageBytes,
   at |-> SchemaIndex("", ""), alone |-> NoOutcome, out |-> NoOutcome]
NoRunning == [id \in CallIds |-> Idle]

\* no receiver-less function has been called
NoPure == [op |-> "none"]

\* no Loop and no TeeLogger has been made
NoLoop == [pc |-> "none"]
NoTee == [pc |-> "none"]

\* NewValidator(schemas): the map handed in, and the seeded fallback
InitialSchemas == {<<>>, (indexTestKind :> <<SchemaTestKind>>)}

Init ==
  /\ schemas \in InitialSchemas
  /\ preValidators = <<>>
  /\ versionFallbacks = ("deckhouse.io/v1alpha1" :> "deckhouse.io/v1")
  /\ transformers = <<>>
  /\ defaultTransformers = <<>>
  /\ extensionsValidators = <<>>
  /\ nsetup = 0
  /\ last = NoCall
  /\ running = NoRunning
  /\ pure = NoPure
  /\ loop = NoLoop
  /\ tee = NoTee

Setup ==
  /\ last = NoCall
  /\ nsetup < MaxSetup
  /\ nsetup' = nsetup + 1
  /\ last' = NoCall
  /\ UNCHANGED <<running, pure, loop, tee>>

AddSchema(index, schema) ==
  /\ Setup
  /\ schemas' = Put(schemas, index, <<schema>>)
  /\ UNCHANGED <<preValidators, versionFallbacks, transformers, defaultTransformers,
                 extensionsValidators>>

AddPreValidator(index, validator) ==
  /\ Setup
  /\ preValidators' = Put(preValidators, index, validator)
  /\ UNCHANGED <<schemas, versionFallbacks, transformers, defaultTransformers,
                 extensionsValidators>>

\* a registration that puts the new validators in front of the list
AddExtensionsValidatorsInFront(validators) ==
  /\ Setup
  /\ extensionsValidators' = validators \o extensionsValidators
  /\ UNCHANGED <<schemas, preValidators, versionFallbacks, transformers,
                 defaultTransformers>>

AddExtensionsValidators(validators) ==
  /\ Setup
  /\ extensionsValidators' = extensionsValidators \o validators
  /\ UNCHANGED <<schemas, preValidators, versionFallbacks, transformers,
                 defaultTransformers>>

AddVersionFallback(failVersion, fallback) ==
  /\ Setup
  /\ versionFallbacks' = Put(versionFallbacks, failVersion, fallback)
  /\ UNCHANGED <<schemas, preValidators, transformers, defaultTransformers,
                 extensionsValidators>>

AddTransformers(index, t) ==
  /\ Setup
  /\ transformers' = Put(transformers, index, t)
  /\ UNCHANGED <<schemas, preValidators, versionFallbacks, defaultTransformers,
                 extensionsValidators>>

SetDefaultTransformers(t) ==
  /\ Setup
  /\ defaultTransformers' = t
  /\ UNCHANGED <<schemas, preValidators, versionFallbacks, transformers,
                 extensionsValidators>>

\* the effect of a validation call on the state
Called(op, index, doc, options, out) ==
  /\ last = NoCall
  /\ last' = [op |-> op, index |-> index, doc |-> doc, options |-> options,
              schemas |-> schemas, preValidators |-> preValidators, out |-> out]
  /\ schemas' = out.schemas
  /\ preValidators' = out.preValidators
  /\ UNCHANGED <<versionFallbacks, transformers, defaultTransformers,
                 extensionsValidators, nsetup, running, pure, loop, tee>>

CallValidateWithIndex(index, doc, options, rev) ==
  Called("ValidateWithIndex", index, doc, options,
         ValidateWithIndex(index, doc, options, rev))

CallValidate(doc, options, rev) ==
  Called("Validate", unmarshalIndex(doc).index, doc, options,
         Validate(doc, options, rev))

\* the caller hands the document a successful call left, with the index as that
\* call left it, to ValidateWithIndex once more
CallValidateWithIndexAgain(rev) ==
  /\ last # NoCall
  /\ last.op \in {"ValidateWithIndex", "Validate"}
  /\ last.out.err = Nil
  /\ last' = [op |-> "ValidateWithIndexAgain", index |-> last.out.index,
              doc |-> last.out.doc, options |-> last.options,
              schemas |-> schemas, preValidators |-> preValidators,
              out |-> ValidateWithIndex(last.out.index, last.out.doc, last.options, rev)]
  /\ schemas' = last'.out.schemas
  /\ preValidators' = last'.out.preValidators
  /\ UNCHANGED <<versionFallbacks, transformers, defaultTransformers,
                 extensionsValidators, nsetup, running, pure, loop, tee>>

\* the caller has looked at the result of the call; the Validator is as it was left
Returned ==
  /\ last # NoCall
  /\ last' = NoCall
  /\ UNCHANGED <<schemas, preValidators, versionFallbacks, transformers,
                 defaultTransformers, extensionsValidators, nsetup, running, pure, loop, tee>>

TransformerLists ==
  {<<>>, <<"nil">>, <<"AdditionalProperties">>,
   <<"nil", "AdditionalPropertiesDisallowFull">>}

\* the map order of the properties shows only when an extension validator runs
MapOrders == IF extensionsValidators = <<>> THEN {FALSE} ELSE BOOLEAN

ExtensionsValidatorPool ==
  {NewXRulesExtensionsValidator({"passphrase"}), NewXRulesExtensionsValidator({})}

Next ==
  \/ \E i \in RegIndexes, s \in SchemaPool : AddSchema(i, s)
  \/ \E i \in RegIndexes, p \in PreValidatorPool : AddPreValidator(i, p)
  \/ \E e \in ExtensionsValidatorPool : AddExtensionsValidators(<<e>>)
  \/ \E p \in FallbackPool : AddVersionFallback(p[1], p[2])
  \/ \E i \in RegIndexes, t \in TransformerLists : AddTransformers(i, t)
  \/ \E t \in TransformerLists : SetDefaultTransformers(t)
  \/ \E i \in IndexInputs, d \in DocPool, o \in OptionPool, rev \in MapOrders :
       CallValidateWithIndex(i, d, o, rev)
  \/ \E d \in ValidateDocPool, o \in OptionPool, rev \in MapOrders :
       CallValidate(d, o, rev)
  \/ \E rev \in MapOrders : CallValidateWithIndexAgain(rev)
  \/ Returned

Spec == Init /\ [][Next]_vars

(***************************************************************************)
(* Properties.  They speak of the latest call: what it was given, the maps *)
(* as they were before it, and what it handed back.                        *)
(***************************************************************************)
\* ValidateWithIndex was entered (Validate enters it once the index is decoded)
Entered == last # NoCall /\ (last.op = "Validate" => yamlUnmarshal(last.doc).ok)

Succeeded == last # NoCall /\ last.out.err = Nil
Failed_ == last # NoCall /\ last.out.err # Nil

\* the decoded input document and the decoded document handed back
InData == yamlUnmarshal(last.doc).data
OutData == yamlUnmarshal(last.out.doc).data

\* the names of the steps of the call, in order
StepNames == [i \in DOMAIN last.out.trace |-> last.out.trace[i][1]]
HasStep(name) == \E i \in DOMAIN StepNames : StepNames[i] = name
StepsNamed(name) == SelectSeq(last.out.trace, LAMBDA st : st[1] = name)
IsHandlerStep(name) == name \in {"handler", "handler:empty"}

\* a map entry, nil when there is none
Lookup(m, k) == IF k \in DOMAIN m THEN m[k] ELSE <<>>

\* the resolution the specification asks for: direct lookup, then at most one
\* fallback hop, in the schemas as they were before the call
Resolved ==
  LET i == last.index
      f == IF i.Version \in DOMAIN versionFallbacks
             THEN versionFallbacks[i.Version] ELSE ""
      j == [i EXCEPT !.Version = f]
  IN  IF Lookup(last.schemas, i) # <<>>
        THEN [schema |-> Lookup(last.schemas, i), index |-> i]
      ELSE IF f = "" THEN [schema |-> <<>>, index |-> i]
      ELSE [schema |-> Lookup(last.schemas, j), index |-> j]

\* the pre-validator the call has to invoke, and what it answers
HasPre ==
  /\ Resolved.index \in DOMAIN last.preValidators
  /\ ~last.preValidators[Resolved.index].isNil
PreAnswer == PreValidate(last.preValidators[Resolved.index], last.doc, Resolved.schema)

\* the schema the call has to go on with after resolution and pre-validation
Chosen == IF HasPre THEN PreAnswer.schema ELSE Resolved.schema

\* C1: a call of Validate or ValidateWithIndex that returns an error leaves the
\* caller's document byte-identical to what it was given
C1_DocumentUnchangedOnError == Failed_ => last.out.doc = last.doc

\* a call that failed in an extension rule, after transformers and structural
\* validation ran, and left the document alone
C1_Witness ==
  /\ Failed_
  /\ errorsIs(last.out.err.chain, "invalid passphrase")
  /\ HasStep("Transform")
  /\ last.out.doc = last.doc

\* the defaults of a schema are in out wherever in omits the field, and the
\* fields in supplies are in out with their value, at every depth
RECURSIVE DefaultedFrom(_, _, _)
DefaultedFrom(in, out, s) ==
  IF in.t # "object" THEN out = in
  ELSE /\ out.t = "object"
       /\ \A k \in DOMAIN in.o :
            /\ k \in DOMAIN out.o
            /\ IF k \in DOMAIN s.props
                 THEN DefaultedFrom(in.o[k], out.o[k], s.props[k])
                 ELSE out.o[k] = in.o[k]
       /\ \A k \in DOMAIN s.props :
            (k \notin DOMAIN in.o /\ s.props[k].default # <<>>)
              => (k \in DOMAIN out.o /\ out.o[k] = s.props[k].default[1])

\* C2: on success the document is replaced by an encoding (JSON) of the validated
\* data in which every omitted field with a declared default carries the default
\* and every supplied field keeps its value
C2_SuccessAppliesDefaults ==
  Succeeded =>
    /\ last.out.doc.enc = "json"
    /\ last.out.doc.order = SortedKeys(DOMAIN OutData.o)
    /\ DefaultedFrom(InData, OutData, Chosen[1])

\* a document that omits sshPort comes back with sshPort: 22, its own fields kept
C2_Witness ==
  /\ Succeeded
  /\ "sshPort" \notin DOMAIN InData.o
  /\ "kind" \in DOMAIN InData.o
  /\ OutData.o["sshPort"] = IntV(22)
  /\ OutData.o["kind"] = InData.o["kind"]

\* the fallback registered for the version of the index handed in, "" when none
FallbackOf(version) ==
  IF version \in DOMAIN versionFallbacks THEN versionFallbacks[version] ELSE ""
FallbackIndex == [last.index EXCEPT !.Version = FallbackOf(last.index.Version)]

\* ValidateWithIndex was entered with a complete index
Resolving == Entered /\ IsValid(last.index)

\* C3: a call returns an error matching ErrSchemaNotFound exactly when the index is
\* complete, the pre-validator (if one is registered) returned no error, and the
\* schema is still nil after direct lookup, fallback and pre-validation
C3_SchemaNotFoundExactly ==
  last # NoCall =>
    (errorsIs(last.out.err.chain, ErrSchemaNotFound)
       <=> /\ Resolving
           /\ HasPre => PreAnswer.err = NoErr
           /\ Chosen = <<>>)

\* a pre-validator was invoked with no schema, accepted the document and returned
\* no schema: the call answers schema not found
C3_Witness ==
  /\ Resolving
  /\ HasPre
  /\ Resolved.schema = <<>>
  /\ PreAnswer.err = NoErr
  /\ HasStep("PreValidator")
  /\ errorsIs(last.out.err.chain, ErrSchemaNotFound)

\* the document passes the schema and every extension rule, in any map order
ValidAgainst(schema) ==
  /\ yamlUnmarshal(last.doc).ok
  /\ Violations(InData, schema) = {}
  /\ \A rev \in BOOLEAN :
       runExtensionsValidators(extensionsValidators, <<InData>>, schema, rev).err = NoErr

\* no schema under the index handed in, a non-empty fallback, a schema under it
FallbackHit ==
  /\ Resolving
  /\ Lookup(last.schemas, last.index) = <<>>
  /\ FallbackOf(last.index.Version) # ""
  /\ Lookup(last.schemas, FallbackIndex) # <<>>

\* C4: with no schema for (kind, v), a non-empty fallback v -> f and a schema at
\* (kind, f), the index reports f afterwards and a document valid against the
\* (kind, f) schema succeeds, validated against that schema; with a schema at
\* (kind, v) the fallback is not consulted and the index keeps v
C4_FallbackResolution ==
  /\ FallbackHit =>
       /\ last.out.index = FallbackIndex
       /\ ~HasPre =>
            /\ last.out.used =
                 <<addTransformersForSchema(FallbackIndex,
                     Lookup(last.schemas, FallbackIndex)[1]).schema>>
            /\ ValidAgainst(last.out.used[1]) =>
                 /\ Succeeded
                 /\ OutData = ApplyDefaults(InData, last.out.used[1])
  /\ (Resolving /\ Lookup(last.schemas, last.index) # <<>>) =>
       /\ last.out.index = last.index
       /\ StepsNamed("Get") = <<Step("Get", last.index.Version)>>

\* a v1alpha1 document validated with the schema registered for v1
C4_Witness ==
  /\ FallbackHit
  /\ ~HasPre
  /\ Succeeded
  /\ last.index.Version = "deckhouse.io/v1alpha1"
  /\ last.out.index.Version = "deckhouse.io/v1"
  /\ Len(StepsNamed("Get")) = 2

\* C5: resolution follows at most one fallback hop and makes at most two registry
\* lookups: with v -> f, f -> g and a schema only at (kind, g) no schema is found
C5_OneFallbackHop ==
  Resolving =>
    /\ Len(StepsNamed("Get")) <= 2
    /\ last.out.index \in {last.index, FallbackIndex}
    /\ ( /\ Lookup(last.schemas, last.index) = <<>>
         /\ FallbackOf(last.index.Version) # ""
         /\ Lookup(last.schemas, FallbackIndex) = <<>>
         /\ ~HasPre )
       => /\ errorsIs(last.out.err.chain, ErrSchemaNotFound)
          /\ last.out.index = FallbackIndex

\* test -> v1alpha1 -> v1 with a schema at v1 only: the call finds no schema
C5_Witness ==
  /\ Resolving
  /\ last.index.Version = "test"
  /\ FallbackOf("test") = "deckhouse.io/v1alpha1"
  /\ FallbackOf("deckhouse.io/v1alpha1") = "deckhouse.io/v1"
  /\ Lookup(last.schemas, [last.index EXCEPT !.Version = "deckhouse.io/v1"]) # <<>>
  /\ Lookup(last.schemas, FallbackIndex) = <<>>
  /\ Len(StepsNamed("Get")) = 2
  /\ errorsIs(last.out.err.chain, ErrSchemaNotFound)

\* the steps that come after the schema-not-found check
LaterSteps ==
  {"Transform", "Unmarshal", "Validate", "handler", "handler:empty", "ApplyDefaults",
   "Overwrite"}

\* C6: when the pre-validator registered for the index returns an error, the call
\* returns that same error unwrapped, no transformer, structural validation or
\* extension rule handler runs, and the document is unchanged
C6_PreValidatorErrorVerbatim ==
  (Resolving /\ HasPre /\ PreAnswer.err # NoErr) =>
    /\ last.out.err = Error(PreAnswer.err, FALSE)
    /\ \A i \in DOMAIN StepNames : StepNames[i] \notin LaterSteps
    /\ last.out.doc = last.doc

\* a pre-validator rejected the port of a document whose schema is registered and
\* has transformers to apply
C6_Witness ==
  /\ Resolving
  /\ HasPre
  /\ PreAnswer.err = <<"invalid SSH port">>
  /\ last.out.err.chain = <<"invalid SSH port">>
  /\ Resolved.schema # <<>>
  /\ selectTransformers(Resolved.index) # <<>>
  /\ HasStep("PreValidator")
  /\ last.out.doc = last.doc

\* C7: a registered pre-validator is invoked also when resolution found no schema;
\* the schema it returns is the one transformed and used for structural and
\* extension validation; a nil schema without error ends in schema-not-found
C7_PreValidatorSchemaUsed ==
  (Resolving /\ HasPre) =>
    /\ Len(StepsNamed("PreValidator")) = 1
    /\ (PreAnswer.err = NoErr /\ PreAnswer.schema = <<>>) =>
         /\ errorsIs(last.out.err.chain, ErrSchemaNotFound)
         /\ last.out.used = <<>>
    /\ (PreAnswer.err = NoErr /\ PreAnswer.schema # <<>>) =>
         /\ last.out.used =
              <<addTransformersForSchema(Resolved.index, PreAnswer.schema[1]).schema>>
         /\ ValidAgainst(last.out.used[1]) =>
              (Succeeded /\ OutData = ApplyDefaults(InData, last.out.used[1]))
         /\ Violations(InData, last.out.used[1]) # {} => Failed_

\* the registry holds a schema, the pre-validator substitutes its own, and the
\* document comes back with the default only the pre-validator's schema declares
C7_Witness ==
  /\ Resolving
  /\ HasPre
  /\ Resolved.schema = <<SchemaTestKind>>
  /\ PreAnswer.schema = <<SchemaOpenKind>>
  /\ Succeeded
  /\ "sshUser" \notin DOMAIN InData.o
  /\ OutData.o["sshUser"] = StrV("root")

\* the place of a step in the order of a call
StepRank(name) ==
  CASE name = "IsValid" -> 1
    [] name = "Get" -> 2
    [] name = "PreValidator" -> 3
    [] name = "NilCheck" -> 4
    [] name = "Transform" -> 5
    [] name = "Unmarshal" -> 6
    [] name = "Validate" -> 7
    [] IsHandlerStep(name) -> 8
    [] name = "ApplyDefaults" -> 9
    [] name = "Overwrite" -> 10

\* the steps that may occur more than once in a call
Repeatable == {"Get", "Transform", "handler", "handler:empty"}

\* C8: the steps of a call occur in one fixed order (completeness check,
\* resolution, pre-validator, schema-not-found check, transformers, structural
\* validation, extension handlers, overwrite); no extension handler is invoked for
\* a document failing structural validation, and the document is overwritten only
\* after every extension validator returned success
C8_FixedStepOrder ==
  Entered =>
    /\ StepNames # <<>> /\ StepNames[1] = "IsValid"
    /\ \A i, j \in DOMAIN StepNames :
         i < j => \/ StepRank(StepNames[i]) < StepRank(StepNames[j])
                  \/ /\ StepNames[i] = StepNames[j]
                     /\ StepNames[i] \in Repeatable
    /\ (\E i \in DOMAIN StepNames : IsHandlerStep(StepNames[i])) =>
         /\ HasStep("Validate")
         /\ Violations(InData, last.out.used[1]) = {}
    /\ HasStep("Overwrite") <=> Succeeded
    /\ HasStep("Overwrite") =>
         /\ StepNames[Len(StepNames)] = "Overwrite"
         /\ HasStep("NilCheck") /\ HasStep("Validate")
         /\ ValidAgainst(last.out.used[1])
    /\ Failed_ => last.out.doc = last.doc /\ ~HasStep("ApplyDefaults")

\* a document with a string for sshPort fails structural validation while a
\* passphrase rule is registered for its schema: no handler was invoked
C8_Witness ==
  /\ Entered
  /\ Failed_
  /\ extensionsValidators # <<>>
  /\ "passphrase" \in extensionsValidators[1].validators
  /\ last.out.used = <<SchemaTestKind>>
  /\ errorsIs(last.out.err.chain, "multierror")
  /\ StepNames[Len(StepNames)] = "Validate"

\* the transformers a list asks for, applied in list order
RECURSIVE TransformAll(_, _)
TransformAll(ts, schema) ==
  IF ts = <<>> THEN schema ELSE TransformAll(Tail(ts), Transform(Head(ts), schema))

IndexList == Lookup(transformers, last.out.index)
ListInForce == IF IndexList # <<>> THEN IndexList ELSE defaultTransformers
NonNil(ts) == SelectSeq(ts, LAMBDA t : t # "nil")

C10_RegistryUnchanged == last # NoCall => schemas = last.schemas

\* C15: when ValidateWithIndex succeeded on d and produced d', ValidateWithIndex
\* with the same validator and index on d' succeeds too and leaves the document
\* byte-identical to d'
C15_ValidationIdempotent ==
  (last # NoCall /\ last.op = "ValidateWithIndexAgain") =>
    /\ last.out.err = Nil
    /\ last.out.doc = last.doc

\* C16: every error of ValidateWithIndex carries its failure kind in a form that
\* equality or unwrapping recovers: an incomplete index, structural violations and
\* extension-rule violations are validation-failed, a decode failure is
\* invalid-encoding
C16_ErrorsCarryKind ==
  (Entered /\ Failed_) =>
    /\ ~IsValid(last.index) => errorsIs(last.out.err.chain, ErrKindValidationFailed)
    /\ (HasStep("Unmarshal") /\ ~HasStep("Validate")) =>
         errorsIs(last.out.err.chain, ErrKindInvalidYAML)
    /\ HasStep("Validate") => errorsIs(last.out.err.chain, ErrKindValidationFailed)

\* C17: with the omit-document option set no error of ValidateWithIndex embeds the
\* document text, whatever the failure; the no-pretty option alone changes the
\* formatting and does not remove the document text
C17_OmitDocIndependent ==
  (Entered /\ Failed_) =>
    /\ last.options.omitDocInError => ~last.out.err.doc
    /\ (~last.options.omitDocInError /\ last.options.noPrettyError
          /\ (~IsValid(last.index) \/ HasStep("Unmarshal")))
         => last.out.err.doc

(***************************************************************************)
(* Concurrent validation.  The registry is populated and no registration   *)
(* call is made any more; goroutines call ValidateWithIndex on the one     *)
(* Validator.  A call resolves its schema, is then inside                  *)
(* addTransformersForSchema (ranging over and writing the Properties maps  *)
(* of the registered tree), then inside openAPIValidate (reading the       *)
(* tree).  A Go map written by one goroutine while another ranges over it, *)
(* reads it or writes it makes the runtime throw a fatal error, which ends *)
(* the process; whether it does is up to the schedule.                     *)
(***************************************************************************)
\* Transform assigns s.Properties[k] at some node it visits
RECURSIVE writesProperties(_, _)
writesProperties(t, s) ==
  \/ \E k \in DOMAIN s.props : shouldDisallowAdditionalProperties(t, s.props[k])
  \/ s.items # <<>> /\ writesProperties(t, s.items[1])
  \/ \E i \in DOMAIN s.itemSchemas : writesProperties(t, s.itemSchemas[i])

\* the transformers in force for the index write a Properties map of the tree
writesSchema(at) ==
  \E i \in DOMAIN selectTransformers(at) :
    /\ selectTransformers(at)[i] # "nil"
    /\ writesProperties(selectTransformers(at)[i], schemas[at][1])

\* fatal error: concurrent map iteration and map write
Fatal == Error(<<"fatal error: concurrent map writes">>, FALSE)

InitConcurrent ==
  /\ schemas \in {(indexTestKind :> <<sc>>) : sc \in SchemaPool}
  /\ preValidators = <<>>
  /\ versionFallbacks = ("deckhouse.io/v1alpha1" :> "deckhouse.io/v1")
  /\ transformers = <<>>
  /\ defaultTransformers \in TransformerLists
  /\ extensionsValidators = <<>>
  /\ nsetup = MaxSetup
  /\ last = NoCall
  /\ running = NoRunning
  /\ pure = NoPure
  /\ loop = NoLoop
  /\ tee = NoTee

\* a goroutine enters ValidateWithIndex: up to the schema-not-found check it only
\* reads the maps
Begin(id, index, doc) ==
  LET options == validateOptions(FALSE, FALSE, FALSE)
      found == getSchemaWithFallback(index)
      whole == ValidateWithIndex(index, doc, options, FALSE)
      alone == Outcome(whole.doc, whole.err, whole.index)
  IN  /\ running[id].pc = "idle"
      /\ running' = [running EXCEPT ![id] =
           IF ~IsValid(index) \/ found.schema = <<>>
             THEN [pc |-> "done", index |-> index, doc |-> doc, at |-> found.index,
                   alone |-> alone, out |-> alone]
             ELSE [pc |-> "transform", index |-> index, doc |-> doc, at |-> found.index,
                   alone |-> alone, out |-> NoOutcome]]
      /\ UNCHANGED <<schemas, preValidators, versionFallbacks, transformers,
                     defaultTransformers, extensionsValidators, nsetup, last, pure, loop, tee>>

\* the goroutine leaves addTransformersForSchema: the registered tree is now the
\* transformed tree
LeaveTransform(id) ==
  /\ running[id].pc = "transform"
  /\ schemas' = [schemas EXCEPT ![running[id].at] =
       <<addTransformersForSchema(running[id].at, schemas[running[id].at][1]).schema>>]
  /\ running' = [running EXCEPT ![id].pc = "validate"]
  /\ UNCHANGED <<preValidators, versionFallbacks, transformers, defaultTransformers,
                 extensionsValidators, nsetup, last, pure, loop, tee>>

\* the goroutine writes a Properties map while another goroutine is ranging over
\* the same tree or reading it: the runtime throws and every call in flight ends
Throw(id) ==
  /\ running[id].pc = "transform"
  /\ writesSchema(running[id].at)
  /\ \E other \in CallIds \ {id} :
       /\ running[other].pc \in {"transform", "validate"}
       /\ running[other].at = running[id].at
  /\ running' = [c \in CallIds |->
       IF running[c].pc \in {"transform", "validate"}
         THEN [running[c] EXCEPT !.pc = "done",
                !.out = Outcome(running[c].doc, Fatal, running[c].at)]
         ELSE running[c]]
  /\ UNCHANGED <<schemas, preValidators, versionFallbacks, transformers,
                 defaultTransformers, extensionsValidators, nsetup, last, pure, loop, tee>>

\* openAPIValidate against the tree as it is now, and the result handed back
Finish(id) ==
  LET options == validateOptions(FALSE, FALSE, FALSE)
      res == openAPIValidate(running[id].doc, schemas[running[id].at][1], options, FALSE)
      end == finish(running[id].doc, options, res)
  IN  /\ running[id].pc = "validate"
      /\ running' = [running EXCEPT ![id].pc = "done",
                       ![id].out = Outcome(end.doc, end.err, running[id].at)]
      /\ UNCHANGED <<schemas, preValidators, versionFallbacks, transformers,
                     defaultTransformers, extensionsValidators, nsetup, last, pure, loop, tee>>

NextConcurrent ==
  \/ \E id \in CallIds, i \in IndexInputs, d \in DocPool : Begin(id, i, d)
  \/ \E id \in CallIds : LeaveTransform(id)
  \/ \E id \in CallIds : Throw(id)
  \/ \E id \in CallIds : Finish(id)

SpecConcurrent == InitConcurrent /\ [][NextConcurrent]_vars

\* C11: validation calls running concurrently against one validator, with no
\* registration in flight, write nothing shared, so in every interleaving each
\* call has the outcome it has when run alone
C11_ConcurrentCallsAsAlone ==
  \A id \in CallIds :
    running[id].pc = "done" => running[id].out = running[id].alone

(***************************************************************************)
(* AdditionalPropertiesTransformer.Transform called on its own, on schema  *)
(* trees of up to MaxNodes nodes (a node may have one property "a" and an  *)
(* item schema, and declares additionalProperties true, false or not at    *)
(* all), on the schemas of the tests and on a schema with a tuple of item  *)
(* schemas.  The caller calls it once and then again on what it returned.  *)
(***************************************************************************)
MaxNodes == 4

Declarations == {"unset", "true", "false"}

RECURSIVE TreesOf(_)
\* no child, or a tree of exactly n nodes
Child(n) == IF n = 0 THEN {<<>>} ELSE {<<t>> : t \in TreesOf(n)}
TreesOf(n) ==
  UNION {{Node("", ap, IF p = <<>> THEN <<>> ELSE ("a" :> p[1]), i, <<>>, {}, <<>>) :
            ap \in Declarations, p \in Child(k), i \in Child(n - 1 - k)} :
         k \in 0..(n - 1)}

\* items given as a tuple of schemas (spec.SchemaOrArray.Schemas)
TupleSchema ==
  [Node("array", "unset", <<>>, <<>>, <<>>, {}, <<>>)
     EXCEPT !.itemSchemas = <<SchemaOpenKind, ValueSchema>>]

TransformInputs ==
  UNION {TreesOf(n) : n \in 1..MaxNodes} \cup SchemaPool \cup {TupleSchema}

\* the registry of a Validator nobody uses
NoValidator ==
  /\ schemas = <<>>
  /\ preValidators = <<>>
  /\ versionFallbacks = <<>>
  /\ transformers = <<>>
  /\ defaultTransformers = <<>>
  /\ extensionsValidators = <<>>
  /\ nsetup = 0
  /\ last = NoCall
  /\ running = NoRunning
  /\ loop = NoLoop
  /\ tee = NoTee

validatorVars ==
  <<schemas, preValidators, versionFallbacks, transformers, defaultTransformers,
    extensionsValidators, nsetup, last, running, loop, tee>>

InitTransform ==
  /\ NoValidator
  /\ pure \in {[op |-> "schema", t |-> t, s |-> sc, n |-> 0] :
                 t \in TransformerPool \ {"nil"}, sc \in TransformInputs}

\* t.Transform(s) on a schema nobody transformed yet
CallTransform ==
  /\ pure.op = "schema"
  /\ pure' = [op |-> "Transform", t |-> pure.t, s |-> pure.s, n |-> 1,
              in |-> pure.s, out |-> Transform(pure.t, pure.s)]
  /\ UNCHANGED validatorVars

\* t.Transform on the tree the first call returned
CallTransformAgain ==
  /\ pure.op = "Transform"
  /\ pure.n = 1
  /\ pure' = [pure EXCEPT !.n = 2, !.in = pure.out, !.out = Transform(pure.t, pure.out)]
  /\ UNCHANGED validatorVars

NextTransform == CallTransform \/ CallTransformAgain

SpecTransform == InitTransform /\ [][NextTransform]_vars

\* the first call of Transform has returned
Transformed(t) == pure.op = "Transform" /\ pure.n = 1 /\ pure.t = t

\* the tree with every reachable node that declares nothing closed, the others kept
RECURSIVE CloseUnset(_)
CloseUnset(s) ==
  [s EXCEPT !.ap = IF s.ap = "unset" THEN "false" ELSE s.ap,
            !.props = [k \in DOMAIN s.props |-> CloseUnset(s.props[k])],
            !.items = [i \in DOMAIN s.items |-> CloseUnset(s.items[i])],
            !.itemSchemas = [i \in DOMAIN s.itemSchemas |-> CloseUnset(s.itemSchemas[i])]]

\* the tree with every reachable node closed
RECURSIVE CloseAll(_)
CloseAll(s) ==
  [s EXCEPT !.ap = "false",
            !.props = [k \in DOMAIN s.props |-> CloseAll(s.props[k])],
            !.items = [i \in DOMAIN s.items |-> CloseAll(s.items[i])],
            !.itemSchemas = [i \in DOMAIN s.itemSchemas |-> CloseAll(s.itemSchemas[i])]]

\* C12: after Transform without disallow-full mode every node reachable through
\* properties and item schemas that declared no additionalProperties is closed, at
\* any depth, and every node that declared it keeps its declaration
C12_ClosesEveryUnsetNode ==
  Transformed("AdditionalProperties") => pure.out = CloseUnset(pure.s)

\* a document with an undeclared field under property a, itself an object
UndeclaredUnderA == ObjV(("a" :> ObjV(("extra" :> StrV("invalid")))))

\* C13: after Transform in disallow-full mode every node reachable through
\* properties and item schemas is closed whatever it declared, so a document with
\* an undeclared field under a property declared additionalProperties true is
\* rejected
C13_FullClosesEveryNode ==
  Transformed("AdditionalPropertiesDisallowFull") =>
    /\ pure.out = CloseAll(pure.s)
    /\ ("a" \in DOMAIN pure.s.props /\ pure.s.props["a"].ap = "true") =>
         /\ Violations(UndeclaredUnderA, pure.s) = {}
         /\ <<"additional", "extra">> \in Violations(UndeclaredUnderA, pure.out)

\* a node declared open below a property declared open: both come out closed, and
\* so does the root
C13_Witness ==
  /\ Transformed("AdditionalPropertiesDisallowFull")
  /\ "a" \in DOMAIN pure.s.props
  /\ pure.s.props["a"].ap = "true"
  /\ "a" \in DOMAIN pure.s.props["a"].props
  /\ pure.s.props["a"].props["a"].ap = "true"
  /\ pure.out.props["a"].props["a"].ap = "false"
  /\ pure.out.props["a"].ap = "false"
  /\ pure.out.ap = "false"

\* C14: Transform is idempotent in both variants: Transform(Transform(s)) equals
\* Transform(s) for every schema tree s
C14_TransformIdempotent ==
  (pure.op = "Transform" /\ pure.n = 2) => pure.out = pure.in

\* the second call on a tree the first call had to change
C14_Witness ==
  /\ pure.op = "Transform"
  /\ pure.n = 2
  /\ pure.in # pure.s
  /\ pure.out = pure.in
  /\ pure.s.items # <<>>
  /\ "a" \in DOMAIN pure.s.props

(***************************************************************************)
(* ParseIndex.  The content read is a sequence of lines: a top-level key   *)
(* at the start of its line ("kind: TestKind"), a comment that mentions a  *)
(* key ("# kind: here"), a key whose value mentions one                    *)
(* ("value: kind: here"), or a line no YAML decoder accepts ("{invalid").  *)
(***************************************************************************)
MaxLines == 4

TopLine(key, val) == [form |-> "top", key |-> key, val |-> val]
CommentLine(key) == [form |-> "comment", key |-> key, val |-> "here"]
ValueLine(key) == [form |-> "value", key |-> key, val |-> "here"]
BadLine == [form |-> "bad", key |-> "", val |-> ""]

LinePool ==
  {TopLine("apiVersion", "deckhouse.io/v1"), TopLine("kind", "TestKind"),
   CommentLine("apiVersion"), ValueLine("kind"), BadLine}

Contents == UNION {[1..n -> LinePool] : n \in 0..MaxLines}

\* (?m)^key:.*$ matches the line
Matches(line, key) == line.form = "top" /\ line.key = key

\* regexp.FindAll(content, n): the first n matching lines
FindAll(content, key, n) ==
  LET all == SelectSeq(content, LAMBDA line : Matches(line, key))
  IN  IF Len(all) > n THEN SubSeq(all, 1, n) ELSE all

\* an error of ParseIndex: its chain, the key it names, the lines it lists, and
\* whether its text holds the content
ParseError(chain, key, lines, doc) ==
  [chain |-> chain, key |-> key, lines |-> lines, doc |-> doc]
NoParseError == ParseError(NoErr, "", <<>>, FALSE)

multipleKeysErr(keyName, keys) ==
  ParseError(<<ErrKindValidationFailed>>, keyName, keys, FALSE)

\* a check that looks at kind before apiVersion
contentHasMultipleSchemaKeysKindFirst(content) ==
  IF Len(FindAll(content, "kind", 2)) > 1
    THEN multipleKeysErr("kind", FindAll(content, "kind", 2))
  ELSE IF Len(FindAll(content, "apiVersion", 2)) > 1
    THEN multipleKeysErr("apiVersion", FindAll(content, "apiVersion", 2))
  ELSE NoParseError

contentHasMultipleSchemaKeys(content) ==
  IF Len(FindAll(content, "apiVersion", 2)) > 1
    THEN multipleKeysErr("apiVersion", FindAll(content, "apiVersion", 2))
  ELSE IF Len(FindAll(content, "kind", 2)) > 1
    THEN multipleKeysErr("kind", FindAll(content, "kind", 2))
  ELSE NoParseError

\* yaml.Unmarshal(content, &index): the value of a top-level key is the one of its
\* last line, a field with no line stays empty
unmarshalContent(content) ==
  LET field(key) ==
        LET at == {i \in DOMAIN content : Matches(content[i], key)}
        IN  IF at = {} THEN ""
            ELSE content[CHOOSE i \in at : \A j \in at : j <= i].val
  IN  [ok |-> \A i \in DOMAIN content : content[i].form # "bad",
       index |-> SchemaIndex(field("kind"), field("apiVersion"))]

invalidIndexErr(index, doc) == ParseError(<<ErrKindValidationFailed>>, "", <<>>, TRUE)

parseIndexOption(noCheckIsValid) == [noCheckIsValid |-> noCheckIsValid]

ParseResult(index, err) == [index |-> index, err |-> err]

\* a ParseIndex that decodes before it looks for duplicate keys
ParseIndexDecodeFirst(readerOk, content, options) ==
  LET dup == contentHasMultipleSchemaKeys(content)
      u == unmarshalContent(content)
  IN  IF ~readerOk
        THEN ParseResult(<<>>, ParseError(<<ErrRead, "read">>, "", <<>>, FALSE))
      ELSE IF ~u.ok
        THEN ParseResult(<<>>, ParseError(
               <<ErrKindValidationFailed, ErrKindInvalidYAML, "yaml">>, "", <<>>, FALSE))
      ELSE IF dup # NoParseError THEN ParseResult(<<>>, dup)
      ELSE IF ~options.noCheckIsValid /\ ~IsValid(u.index)
        THEN ParseResult(<<>>, invalidIndexErr(u.index, content))
      ELSE ParseResult(<<u.index>>, NoParseError)

ParseIndex(readerOk, content, options) ==
  LET dup == contentHasMultipleSchemaKeys(content)
      u == unmarshalContent(content)
  IN  IF ~readerOk
        THEN ParseResult(<<>>, ParseError(<<ErrRead, "read">>, "", <<>>, FALSE))
      ELSE IF dup # NoParseError THEN ParseResult(<<>>, dup)
      ELSE IF ~u.ok
        THEN ParseResult(<<>>, ParseError(
               <<ErrKindValidationFailed, ErrKindInvalidYAML, "yaml">>, "", <<>>, FALSE))
      ELSE IF ~options.noCheckIsValid /\ ~IsValid(u.index)
        THEN ParseResult(<<>>, invalidIndexErr(u.index, content))
      ELSE ParseResult(<<u.index>>, NoParseError)

InitParseIndex ==
  /\ NoValidator
  /\ pure \in {[op |-> "reader", readerOk |-> r, content |-> c, options |-> o] :
                 r \in BOOLEAN, c \in Contents,
                 o \in {parseIndexOption(b) : b \in BOOLEAN}}

CallParseIndex ==
  /\ pure.op = "reader"
  /\ pure' = [op |-> "ParseIndex", readerOk |-> pure.readerOk,
              content |-> pure.content, options |-> pure.options,
              out |-> ParseIndex(pure.readerOk, pure.content, pure.options)]
  /\ UNCHANGED validatorVars

NextParseIndex == CallParseIndex

SpecParseIndex == InitParseIndex /\ [][NextParseIndex]_vars

\* ParseIndex has returned, and the reader had handed its content over
Parsed == pure.op = "ParseIndex" /\ pure.readerOk

\* the number of lines of the content that start with key:
LinesStarting(key) ==
  Cardinality({i \in DOMAIN pure.content :
                 pure.content[i].form = "top" /\ pure.content[i].key = key})

\* C18: ParseIndex fails with a validation-failed error naming the key whenever
\* more than one line starts with apiVersion: or more than one with kind:, with or
\* without the no-completeness-check option; apiVersion is checked first;
\* occurrences not at the start of a line are not counted
C18_DuplicateKeysRejected ==
  Parsed =>
    /\ (LinesStarting("apiVersion") > 1 \/ LinesStarting("kind") > 1) =>
         /\ pure.out.index = <<>>
         /\ errorsIs(pure.out.err.chain, ErrKindValidationFailed)
         /\ pure.out.err.key =
              IF LinesStarting("apiVersion") > 1 THEN "apiVersion" ELSE "kind"
         /\ Len(pure.out.err.lines) = 2
    /\ (LinesStarting("apiVersion") <= 1 /\ LinesStarting("kind") <= 1) =>
         pure.out.err.key = ""

\* both keys twice, the option given: the error names apiVersion
C18_Witness ==
  /\ Parsed
  /\ pure.options.noCheckIsValid
  /\ LinesStarting("apiVersion") = 2
  /\ LinesStarting("kind") = 2
  /\ pure.out.err.key = "apiVersion"
  /\ pure.out.index = <<>>

\* the check of ParseIndex that fails first, in the order read, duplicate keys,
\* decode, completeness
FirstFailure ==
  LET u == unmarshalContent(pure.content)
  IN  IF ~pure.readerOk THEN "read"
      ELSE IF LinesStarting("apiVersion") > 1 \/ LinesStarting("kind") > 1
        THEN "duplicate"
      ELSE IF \E i \in DOMAIN pure.content : pure.content[i].form = "bad"
        THEN "decode"
      ELSE IF ~pure.options.noCheckIsValid /\ (u.index.Kind = "" \/ u.index.Version = "")
        THEN "incomplete"
      ELSE "none"

\* C19: ParseIndex reports the first failing check in the order read, duplicate
\* keys, decode, completeness: ErrRead for a failing reader, ErrKindInvalidYAML
\* and ErrKindValidationFailed for undecodable content, ErrKindValidationFailed
\* for an incomplete index unless ParseIndexWithoutCheckValid is given, and then
\* the incomplete index without error; on every error the index is nil
C19_FirstFailingCheck ==
  pure.op = "ParseIndex" =>
    /\ FirstFailure = "read" =>
         errorsIs(pure.out.err.chain, ErrRead) /\ pure.out.err.chain[1] = ErrRead
    /\ FirstFailure = "duplicate" =>
         pure.out.err.key # "" /\ pure.out.err.chain = <<ErrKindValidationFailed>>
    /\ FirstFailure = "decode" =>
         /\ errorsIs(pure.out.err.chain, ErrKindInvalidYAML)
         /\ errorsIs(pure.out.err.chain, ErrKindValidationFailed)
    /\ FirstFailure = "incomplete" =>
         /\ pure.out.err.chain = <<ErrKindValidationFailed>>
         /\ pure.out.err.key = ""
    /\ FirstFailure = "none" <=> pure.out.err = NoParseError
    /\ pure.out.err # NoParseError <=> pure.out.index = <<>>
    /\ pure.out.err = NoParseError =>
         pure.out.index = <<unmarshalContent(pure.content).index>>

\* content with no kind line, the option given: the incomplete index comes back
C19_Witness ==
  /\ Parsed
  /\ pure.options.noCheckIsValid
  /\ pure.content # <<>>
  /\ pure.out.err = NoParseError
  /\ pure.out.index = <<SchemaIndex("", "deckhouse.io/v1")>>

(***************************************************************************)
(* SchemaIndex.GroupAndGroupVersion, Group and GroupVersion.  A Version    *)
(* is the sequence of its pieces, up to MaxVersionLen of them: a letter, a *)
(* digit, the separator, and the text invalid: taken as one piece (no      *)
(* other piece begins with one of its characters).                         *)
(***************************************************************************)
MaxVersionLen == 4

VersionChars == {"d", "1", "/", "invalid:"}
VersionStrings == UNION {[1..n -> VersionChars] : n \in 0..MaxVersionLen}

InvalidGroupPrefix == <<"invalid:">>

\* strings.Count(v, "/")
stringsCount(v, sep) == Cardinality({i \in DOMAIN v : v[i] = sep})

\* strings.Index(v, "/"), counted from 1; 0 when there is none
stringsIndex(v, sep) ==
  IF \E i \in DOMAIN v : v[i] = sep
    THEN CHOOSE i \in DOMAIN v : v[i] = sep /\ \A j \in 1..(i - 1) : v[j] # sep
    ELSE 0

\* a split that leaves the separator at the head of the group version
GroupAndGroupVersionFromSeparator(i) ==
  LET v == i.Version
      invalid == InvalidGroupPrefix \o <<" ">> \o i.Version
  IN  IF v = <<>> THEN <<<<>>, <<>>>>
      ELSE IF stringsCount(v, "/") = 0 THEN <<<<>>, v>>
      ELSE IF stringsCount(v, "/") = 1
        THEN <<SubSeq(v, 1, stringsIndex(v, "/") - 1),
               SubSeq(v, stringsIndex(v, "/"), Len(v))>>
      ELSE <<invalid, invalid>>

GroupAndGroupVersion(i) ==
  LET v == i.Version
      invalid == InvalidGroupPrefix \o <<" ">> \o i.Version
  IN  IF v = <<>> THEN <<<<>>, <<>>>>
      ELSE IF stringsCount(v, "/") = 0 THEN <<<<>>, v>>
      ELSE IF stringsCount(v, "/") = 1
        THEN <<SubSeq(v, 1, stringsIndex(v, "/") - 1),
               SubSeq(v, stringsIndex(v, "/") + 1, Len(v))>>
      ELSE <<invalid, invalid>>

Group(i) == GroupAndGroupVersion(i)[1]

GroupVersion(i) == GroupAndGroupVersion(i)[2]

InitGroup ==
  /\ NoValidator
  /\ pure \in {[op |-> "index", index |-> SchemaIndex("TestKind", v)] :
                 v \in VersionStrings}

CallGroupAndGroupVersion ==
  /\ pure.op = "index"
  /\ pure' = [op |-> "GroupAndGroupVersion", index |-> pure.index,
              out |-> GroupAndGroupVersion(pure.index)]
  /\ UNCHANGED validatorVars

CallGroup ==
  /\ pure.op = "index"
  /\ pure' = [op |-> "Group", index |-> pure.index, out |-> Group(pure.index)]
  /\ UNCHANGED validatorVars

CallGroupVersion ==
  /\ pure.op = "index"
  /\ pure' = [op |-> "GroupVersion", index |-> pure.index,
              out |-> GroupVersion(pure.index)]
  /\ UNCHANGED validatorVars

NextGroup == CallGroupAndGroupVersion \/ CallGroup \/ CallGroupVersion

SpecGroup == InitGroup /\ [][NextGroup]_vars

\* the split the slash count asks for: <<group, group version>>
SplitBySlashes(v) ==
  LET slashes == {i \in DOMAIN v : v[i] = "/"}
      sentinel == <<"invalid:", " ">> \o v
  IN  IF v = <<>> THEN <<<<>>, <<>>>>
      ELSE IF slashes = {} THEN <<<<>>, v>>
      ELSE IF Cardinality(slashes) = 1
        THEN LET at == CHOOSE i \in slashes : TRUE
             IN  <<[j \in 1..(at - 1) |-> v[j]], [j \in 1..(Len(v) - at) |-> v[at + j]]>>
      ELSE <<sentinel, sentinel>>

\* C20: for every SchemaIndex GroupAndGroupVersion, and Group and GroupVersion as
\* its components, equal the split by slash count: ("", "") for an empty Version,
\* ("", Version) with no '/', the parts around the one '/' (so that
\* Group + "/" + GroupVersion = Version), and "invalid: " + Version twice for more
C20_GroupSplit ==
  LET v == pure.index.Version
  IN  /\ pure.op = "GroupAndGroupVersion" =>
           /\ pure.out = SplitBySlashes(v)
           /\ Cardinality({i \in DOMAIN v : v[i] = "/"}) = 1 =>
                pure.out[1] \o <<"/">> \o pure.out[2] = v
           /\ Cardinality({i \in DOMAIN v : v[i] = "/"}) > 1 => pure.out[1] = pure.out[2]
      /\ pure.op = "Group" => pure.out = SplitBySlashes(v)[1]
      /\ pure.op = "GroupVersion" => pure.out = SplitBySlashes(v)[2]

\* d/1 splits into d and 1
C20_Witness ==
  /\ pure.op = "GroupAndGroupVersion"
  /\ pure.index.Version = <<"d", "/", "1">>
  /\ pure.out = << <<"d">>, <<"1">> >>

\* strings.HasPrefix(s, prefix)
stringsHasPrefix(s, prefix) ==
  /\ Len(s) >= Len(prefix)
  /\ SubSeq(s, 1, Len(prefix)) = prefix

\* C21: for every SchemaIndex, Group() or GroupVersion() starts with "invalid:"
\* if and only if Version contains two or more '/' separators
C21_PrefixDetectsMalformed ==
  LET v == pure.index.Version
      malformed == Cardinality({i \in DOMAIN v : v[i] = "/"}) >= 2
  IN  /\ pure.op \in {"Group", "GroupVersion"} =>
           (stringsHasPrefix(pure.out, InvalidGroupPrefix) <=> malformed)
      /\ pure.op = "GroupAndGroupVersion" =>
           ((stringsHasPrefix(pure.out[1], InvalidGroupPrefix)
               \/ stringsHasPrefix(pure.out[2], InvalidGroupPrefix)) <=> malformed)

(***************************************************************************)
(* LoadSchemas.  The file is what its reader delivers: text that does not  *)
(* decode, or a kind with a list of versions, each with the value of its   *)
(* openAPISpec key.  The repository carries the function twice, in         *)
(* schema_loader.go and in a second file of the package; sourceFile says   *)
(* which of the two is built.                                              *)
(***************************************************************************)
MaxVersions == 2

SourceFiles == {"schema_loader.go", "part_000"}

\* openAPISpec values: a schema, a scalar where the schema object is expected, and a
\* schema whose $ref names a definition that is not there
OpenAPISpecPool ==
  {[shape |-> "schema", schema |-> sc] : sc \in SchemaPool}
    \cup {[shape |-> "scalar", schema |-> Leaf("string")],
          [shape |-> "danglingRef", schema |-> Leaf("object")]}

OpenAPISchemaVersion(version, schema) == [Version |-> version, Schema |-> schema]

OpenAPISchema(kind, versions) == [ok |-> TRUE, Kind |-> kind, Versions |-> versions]

NotAnOpenAPISchema == [ok |-> FALSE, Kind |-> "", Versions |-> <<>>]

SchemaFiles ==
  {NotAnOpenAPISchema}
    \cup {OpenAPISchema("TestKind", vs) :
            vs \in UNION {[1..n -> {OpenAPISchemaVersion(v, sp) :
                                      v \in {"v1", "v2"}, sp \in OpenAPISpecPool}] :
                           n \in 0..MaxVersions}}

SchemaWithIndex(schema, index) == [Schema |-> schema, Index |-> index]

LoadResult(res, err) == [res |-> res, err |-> err]

\* the loop over openAPISchema.Versions, res being what is appended so far
RECURSIVE loadVersions(_, _, _)
loadVersions(kind, versions, res) ==
  IF versions = <<>> THEN LoadResult(res, NoErr)
  ELSE LET parsedSchema == Head(versions)
       IN  IF parsedSchema.Schema.shape = "scalar"
             THEN LoadResult(<<>>, <<"json marshal schema">>)
           ELSE IF parsedSchema.Schema.shape = "danglingRef"
             THEN LoadResult(<<>>, <<"expand the schema">>)
           ELSE loadVersions(kind, Tail(versions),
                  Append(res, SchemaWithIndex(
                    Transform("AdditionalProperties", parsedSchema.Schema.schema),
                    SchemaIndex(kind, parsedSchema.Version))))

readErr(sourceFile) ==
  IF sourceFile = "schema_loader.go" THEN <<"read">> ELSE <<ErrRead, "read">>

LoadSchemas(sourceFile, readerOk, file) ==
  IF ~readerOk THEN LoadResult(<<>>, readErr(sourceFile))
  ELSE IF ~file.ok THEN LoadResult(<<>>, <<"Failed unmarshal openapi schema">>)
  ELSE loadVersions(file.Kind, file.Versions, <<>>)

InitLoadSchemas ==
  /\ NoValidator
  /\ pure \in {[op |-> "reader", sourceFile |-> f, readerOk |-> r, file |-> c] :
                 f \in SourceFiles, r \in BOOLEAN, c \in SchemaFiles}

CallLoadSchemas ==
  /\ pure.op = "reader"
  /\ pure' = [op |-> "LoadSchemas", sourceFile |-> pure.sourceFile,
              readerOk |-> pure.readerOk, file |-> pure.file,
              out |-> LoadSchemas(pure.sourceFile, pure.readerOk, pure.file)]
  /\ UNCHANGED validatorVars

NextLoadSchemas == CallLoadSchemas

SpecLoadSchemas == InitLoadSchemas /\ [][NextLoadSchemas]_vars

\* C22: when the reader given to LoadSchemas fails, LoadSchemas returns no schemas
\* and an error that is ErrRead, and no decode or expansion failure is ErrRead
C22_ReadFailureIsErrRead ==
  pure.op = "LoadSchemas" =>
    /\ ~pure.readerOk =>
          /\ pure.out.res = <<>>
          /\ errorsIs(pure.out.err, ErrRead)
    /\ (pure.readerOk /\ pure.out.err # NoErr) => ~errorsIs(pure.out.err, ErrRead)

(***************************************************************************)
(* ExtensionsValidator.Validate on its own: documents with a list of up    *)
(* to MaxItems private keys (or none), against testSchemaTestKind with a   *)
(* list of rule names on the item schema of sshAgentPrivateKeys.           *)
(***************************************************************************)
MaxItems == 2

PrivateKey(passphrase) ==
  ObjV(("key" :> StrV("mykey")) @@ ("passphrase" :> StrV(passphrase)))

PrivateKeyLists ==
  UNION {[1..n -> {PrivateKey("!not@secret."), PrivateKey("not secret")}] :
         n \in 0..MaxItems}

\* the documents: sshAgentPrivateKeys absent, or one of the lists
ItemDocuments ==
  {ObjV(("sshPort" :> IntV(2200)))}
    \cup {ObjV(("sshPort" :> IntV(2200)) @@ ("sshAgentPrivateKeys" :> ArrV(q))) :
            q \in PrivateKeyLists}

ItemRuleLists == {<<"passphrase">>, <<"absent", "passphrase">>, <<"passphrase", "strict">>}

\* testSchemaTestKind with rules as the x-rules of the items of sshAgentPrivateKeys
SchemaWithItemRules(rules) ==
  [SchemaTestKind EXCEPT
     !.props["sshAgentPrivateKeys"].items[1].ext = (xRulesExtension :> rules)]

InitExtensions ==
  /\ NoValidator
  /\ pure \in {[op |-> "data", ev |-> NewXRulesExtensionsValidator(hs), data |-> d,
                 schema |-> SchemaWithItemRules(rs), rev |-> rev] :
                 hs \in SUBSET {"passphrase", "strict"}, d \in ItemDocuments,
                 rs \in ItemRuleLists, rev \in BOOLEAN}

CallExtensionsValidate ==
  /\ pure.op = "data"
  /\ pure' = [pure EXCEPT !.op = "ExtensionsValidator.Validate"] @@
             [out |-> extValidate(pure.ev, <<pure.data>>, pure.schema, pure.rev)]
  /\ UNCHANGED validatorVars

NextExtensions == CallExtensionsValidate

SpecExtensions == InitExtensions /\ [][NextExtensions]_vars

\* the private keys of the document, none when the field is absent
ItemsOf(data) ==
  IF "sshAgentPrivateKeys" \in DOMAIN data.o THEN data.o["sshAgentPrivateKeys"].a ELSE <<>>

\* the item rules the validator has a handler for, in their order
HandledRules(ev, schema) ==
  SelectSeq(GetStringSlice(schema.props["sshAgentPrivateKeys"].items[1], ev.name),
            LAMBDA r : r \in ev.validators)

\* C23: for a property whose item schema carries rule names, every registered
\* handler of those rules is run against every item and validation fails if any
\* item is rejected; with the array absent or empty the item rules are skipped
\* and produce no error
C23_ItemRulesOnEveryItem ==
  pure.op = "ExtensionsValidator.Validate" =>
    LET items == ItemsOf(pure.data)
        rules == HandledRules(pure.ev, pure.schema)
        rejected == {i \in DOMAIN items : Handler("passphrase", <<items[i]>>) # NoErr}
    IN  /\ items = <<>> => (pure.out.err = NoErr /\ pure.out.calls = <<>>)
        /\ (rules # <<>> /\ rejected # {}) => pure.out.err # NoErr
        /\ (rules = <<>> \/ rejected = {}) =>
              /\ pure.out.err = NoErr
              /\ pure.out.calls =
                   [k \in 1..(Len(rules) * Len(items)) |->
                      <<"handler", rules[((k - 1) \div Len(items)) + 1]>>]

\* two keys, the second with a passphrase the handler rejects
C23_Witness ==
  /\ pure.op = "ExtensionsValidator.Validate"
  /\ Len(ItemsOf(pure.data)) = 2
  /\ Handler("passphrase", <<ItemsOf(pure.data)[1]>>) = NoErr
  /\ Handler("passphrase", <<ItemsOf(pure.data)[2]>>) # NoErr
  /\ HandledRules(pure.ev, pure.schema) # <<>>
  /\ pure.out.err # NoErr
  /\ Len(pure.out.calls) = 2

(***************************************************************************)
(* Validators of different extension attributes registered on one          *)
(* Validator, one or two with a call of AddExtensionsValidators, and       *)
(* ValidateWithIndex called with them in place.  The item schema of        *)
(* sshAgentPrivateKeys carries rules under x-rules and under x-other.      *)
(***************************************************************************)
xOtherExtension == "x-other"

SchemaTwoExtensions ==
  [SchemaTestKind EXCEPT
     !.props["sshAgentPrivateKeys"].items[1].ext =
        (xRulesExtension :> <<"passphrase">>) @@ (xOtherExtension :> <<"strict">>)]

OrderedValidatorPool ==
  {NewXRulesExtensionsValidator({"passphrase"}), NewXRulesExtensionsValidator({}),
   NewExtensionsValidator(xOtherExtension, {"strict"})}

InitExtensionsOrder ==
  /\ schemas = (indexTestKind :> <<SchemaTwoExtensions>>)
  /\ preValidators = <<>>
  /\ versionFallbacks = ("deckhouse.io/v1alpha1" :> "deckhouse.io/v1")
  /\ transformers = <<>>
  /\ defaultTransformers = <<>>
  /\ extensionsValidators = <<>>
  /\ nsetup = 0
  /\ last = NoCall
  /\ running = NoRunning
  /\ pure = NoPure
  /\ loop = NoLoop
  /\ tee = NoTee

NextExtensionsOrder ==
  \/ \E e \in OrderedValidatorPool : AddExtensionsValidators(<<e>>)
  \/ \E e1, e2 \in OrderedValidatorPool : AddExtensionsValidators(<<e1, e2>>)
  \/ \E d \in DocPool, o \in OptionPool, rev \in MapOrders :
       CallValidateWithIndex(indexTestKind, d, o, rev)
  \/ Returned

SpecExtensionsOrder == InitExtensionsOrder /\ [][NextExtensionsOrder]_vars

\* what each registered validator answers for the document of the call, taken alone
Alone ==
  [i \in DOMAIN extensionsValidators |->
     extValidate(extensionsValidators[i], <<InData>>, last.out.used[1], FALSE)]

\* the handler calls of the first n validators, one validator after the other
RECURSIVE CallsUpTo(_, _)
CallsUpTo(alone, n) ==
  IF n = 0 THEN <<>> ELSE CallsUpTo(alone, n - 1) \o alone[n].calls

HandlerSteps == SelectSeq(last.out.trace, LAMBDA st : IsHandlerStep(st[1]))

\* a call runs the validators in the order of the list: the handler calls are those
\* of each validator alone up to the first that fails, whose error ends the call
ExtensionsRunInListOrder ==
  (last # NoCall /\ HasStep("Validate") /\ Violations(InData, last.out.used[1]) = {}) =>
    LET failing == {i \in DOMAIN Alone : Alone[i].err # NoErr}
        first == IF failing = {} THEN Len(Alone)
                 ELSE CHOOSE i \in failing : \A j \in failing : i <= j
    IN  /\ HandlerSteps = CallsUpTo(Alone, first)
        /\ failing = {} => Succeeded
        /\ failing # {} =>
              /\ Failed_
              /\ last.out.err.chain = Wrap(last.out.err.chain[1], Alone[first].err)

\* a registration leaves the validators added before it where they are, in front
ExtensionsAddedAtEnd ==
  \A i \in DOMAIN extensionsValidators :
    /\ i <= Len(extensionsValidators')
    /\ extensionsValidators'[i] = extensionsValidators[i]

\* C24: extension validators run in the order in which they were added, each
\* against the same raw document and schema; the first validator that fails aborts
\* validation, and no handler of a later validator is invoked
C24_ExtensionsInRegistrationOrder ==
  /\ []ExtensionsRunInListOrder
  /\ [][ExtensionsAddedAtEnd]_vars

\* a validator without handlers, then the x-other one, which rejects the key, then
\* the x-rules one: the only handler call made is that of the second validator
C24_Witness ==
  /\ last # NoCall
  /\ Len(extensionsValidators) = 3
  /\ extensionsValidators[1] = NewXRulesExtensionsValidator({})
  /\ extensionsValidators[2] = NewExtensionsValidator(xOtherExtension, {"strict"})
  /\ extensionsValidators[3] = NewXRulesExtensionsValidator({"passphrase"})
  /\ Failed_
  /\ HandlerSteps = <<<<"handler", "strict">>>>

(***************************************************************************)
(* retry.Loop.  An error is the chain of its layers, outermost first.      *)
(* loop holds the Loop, the position of its run (attempt: at the head of   *)
(* the for loop; task: inside task(); wait: in the select), the context    *)
(* handed to the run, what the global interrupt checker answers now, and   *)
(* a record of the run: the results of the task so far, the number of      *)
(* times the checker was consulted, and how many invocations had begun     *)
(* when the context became done and when the checker turned true.          *)
(***************************************************************************)
MaxAttempts == 3

\* errors.Is(err, target) for error values: target is err or a layer below it
errorsIsError(err, target) ==
  \E k \in 1..Len(err) : SubSeq(err, k, Len(err)) = target

ErrTemporary == <<"temporary error">>
ErrBreak == <<"break error">>
Canceled == <<"context canceled">>
DeadlineExceeded == <<"context deadline exceeded">>
GracefulShutdown == <<"Loop was canceled: graceful shutdown">>

\* what a task may return: nil, an error, the break error, an error wrapping it
TaskResults == {NoErr, ErrTemporary, ErrBreak, Wrap("wrapped", ErrBreak)}

\* IsErr(err): the predicate, held as the error it was made from
IsErr(err) == [isErr |-> err]

\* the predicate of IsErr applied to the error of the task
breakPredicate(pred, target) == errorsIsError(pred.isErr, target)

NewLoop(attempts, interruptable, prefix) ==
  [pc |-> "new", attemptsQuantity |-> attempts, interruptable |-> interruptable,
   prefix |-> prefix, breakPredicate |-> <<>>, ctx |-> "none", interrupted |-> FALSE,
   i |-> 0, err |-> NoErr, result |-> NoErr,
   returns |-> <<>>, consulted |-> 0, doneAfter |-> 0, interruptedAfter |-> 0]

NewLoopWithParams(attempts) == NewLoop(attempts, TRUE, "")

\* a silent loop that the interrupt checker can stop
NewSilentLoopInterruptable(attempts) == NewLoop(attempts, TRUE, "[name][rand] ")

NewSilentLoopWithParams(attempts) == NewLoop(attempts, FALSE, "[name][rand] ")

BreakIf(l, pred) == [l EXCEPT !.breakPredicate = <<pred>>]

\* the task calls begun so far
Invocations(l) ==
  IF l.pc = "task" THEN Len(l.returns) + 1 ELSE Len(l.returns)

ctxErr(l) ==
  IF l.ctx = "canceled" THEN Canceled
  ELSE IF l.ctx = "deadline" THEN DeadlineExceeded
  ELSE NoErr

InRun(l) == l.pc \in {"attempt", "task", "wait"}

\* a comparison that stops the loop one attempt early
attemptsLeftOneFewer(l) == l.i + 1 < l.attemptsQuantity

\* i < l.attemptsQuantity
attemptsLeft(l) == l.i < l.attemptsQuantity

loopFrame ==
  <<schemas, preValidators, versionFallbacks, transformers, defaultTransformers,
    extensionsValidators, nsetup, last, running, pure, tee>>

InitLoop ==
  /\ schemas = <<>>
  /\ preValidators = <<>>
  /\ versionFallbacks = <<>>
  /\ transformers = <<>>
  /\ defaultTransformers = <<>>
  /\ extensionsValidators = <<>>
  /\ nsetup = 0
  /\ last = NoCall
  /\ running = NoRunning
  /\ pure = NoPure
  /\ tee = NoTee
  /\ loop \in {NewLoopWithParams(n) : n \in 1..MaxAttempts}
              \cup {NewSilentLoopWithParams(n) : n \in 1..MaxAttempts}
              \cup {BreakIf(NewLoopWithParams(n), IsErr(ErrBreak)) : n \in 1..MaxAttempts}
              \cup {BreakIf(NewSilentLoopWithParams(n), IsErr(ErrBreak)) :
                      n \in 1..MaxAttempts}

Run ==
  /\ loop.pc = "new"
  /\ loop' = [loop EXCEPT !.pc = "attempt", !.i = 1, !.ctx = "background"]
  /\ UNCHANGED loopFrame

\* ctx is a context that can still be cancelled, or one that is done already
RunContext(ctx) ==
  /\ loop.pc = "new"
  /\ loop' = [loop EXCEPT !.pc = "attempt", !.i = 1, !.ctx = ctx]
  /\ UNCHANGED loopFrame

\* cancel() of the context, or its deadline passing, while the task runs or the
\* loop waits
BecomesDone(how) ==
  /\ loop.pc \in {"task", "wait"}
  /\ loop.ctx = "active"
  /\ loop' = [loop EXCEPT !.ctx = how, !.doneAfter = Invocations(loop)]
  /\ UNCHANGED loopFrame

\* from now on the global interrupt checker answers true
Interrupt ==
  /\ InRun(loop)
  /\ ~loop.interrupted
  /\ loop' = [loop EXCEPT !.interrupted = TRUE, !.interruptedAfter = Invocations(loop)]
  /\ UNCHANGED loopFrame

\* the head of an iteration: the interrupt check, then the task is called
Attempt ==
  /\ loop.pc = "attempt"
  /\ loop' =
       IF loop.interruptable /\ loop.interrupted
         THEN [loop EXCEPT !.pc = "returned", !.result = GracefulShutdown,
                           !.consulted = @ + 1]
         ELSE [loop EXCEPT !.pc = "task",
                           !.consulted = IF loop.interruptable THEN @ + 1 ELSE @]
  /\ UNCHANGED loopFrame

\* task() returns err: success, break, the wait before the next attempt, or the
\* end of the loop after the last one
TaskReturns(err) ==
  /\ loop.pc = "task"
  /\ LET l == [loop EXCEPT !.err = err, !.returns = Append(@, err)]
     IN  loop' =
           IF err = NoErr THEN [l EXCEPT !.pc = "returned", !.result = NoErr]
           ELSE IF l.breakPredicate # <<>> /\ breakPredicate(l.breakPredicate[1], err)
             THEN [l EXCEPT !.pc = "returned", !.result = err]
           ELSE IF attemptsLeft(l) THEN [l EXCEPT !.pc = "wait"]
           ELSE [l EXCEPT !.pc = "returned", !.result = Wrap("Timeout while", err)]
  /\ UNCHANGED loopFrame

\* case <-time.After(l.waitTime): the wait is positive, it has not elapsed when
\* the select begins, so a context that is done by then is what the select takes
WaitElapsed ==
  /\ loop.pc = "wait"
  /\ ctxErr(loop) = NoErr
  /\ loop' = [loop EXCEPT !.pc = "attempt", !.i = @ + 1]
  /\ UNCHANGED loopFrame

\* case <-ctx.Done()
CtxDone ==
  /\ loop.pc = "wait"
  /\ ctxErr(loop) # NoErr
  /\ loop' = [loop EXCEPT !.pc = "returned",
                          !.result = Wrap("Loop was canceled", ctxErr(loop))]
  /\ UNCHANGED loopFrame

NextLoop ==
  \/ Run
  \/ \E c \in {"active", "canceled", "deadline"} : RunContext(c)
  \/ \E how \in {"canceled", "deadline"} : BecomesDone(how)
  \/ Interrupt
  \/ Attempt
  \/ \E e \in TaskResults : TaskReturns(e)
  \/ WaitElapsed
  \/ CtxDone

SpecLoop == InitLoop /\ [][NextLoop]_vars

\* the task returns each time it is called, and time passes
SpecLoopFair ==
  /\ SpecLoop
  /\ WF_vars(Attempt)
  /\ WF_vars(\E e \in TaskResults : TaskReturns(e))
  /\ WF_vars(WaitElapsed)
  /\ WF_vars(CtxDone)

\* a run of Run with no break predicate that the interrupt checker left alone
PlainRun ==
  /\ loop.ctx = "background"
  /\ ~loop.interrupted
  /\ loop.breakPredicate = <<>>

\* the invocations on which the task returned nil
Successes == {k \in DOMAIN loop.returns : loop.returns[k] = NoErr}

\* what a plain run has done when it returns
RunUntilSuccessOrLimit ==
  (loop.pc = "returned" /\ PlainRun) =>
    IF Successes # {}
      THEN /\ loop.result = NoErr
           /\ Len(loop.returns) <= loop.attemptsQuantity
           /\ \A k \in Successes : k = Len(loop.returns)
      ELSE /\ Len(loop.returns) = loop.attemptsQuantity
           /\ loop.result # NoErr
           /\ loop.result # loop.returns[loop.attemptsQuantity]
           /\ errorsIsError(loop.result, loop.returns[loop.attemptsQuantity])

Matches_(err, e) == err # NoErr /\ errorsIsError(err, e)

\* C26: with BreakIf(IsErr(e)), when an invocation of the task returns an error
\* that matches e (e itself or an error wrapping e), the loop stops after that
\* invocation, performs no further attempt, and Run returns an error that is e
C26_BreakOnMatchingError ==
  (loop.pc # "none" /\ loop.breakPredicate = <<IsErr(ErrBreak)>>) =>
    \A k \in DOMAIN loop.returns :
      Matches_(loop.returns[k], ErrBreak) =>
        /\ k = Len(loop.returns)
        /\ loop.pc = "returned"
        /\ errorsIsError(loop.result, ErrBreak)

\* the context as it is when the run is over
ContextDone == loop.ctx \in {"canceled", "deadline"}

\* no invocation of the task has ended the run by its own result
TaskKeepsFailing ==
  \A k \in DOMAIN loop.returns :
    /\ loop.returns[k] # NoErr
    /\ loop.breakPredicate # <<>> => ~breakPredicate(loop.breakPredicate[1], loop.returns[k])

\* C27: once the context is cancelled or past its deadline, the task is not invoked
\* again and RunContext returns an error that is ctx.Err(); a context that becomes
\* done during attempt k (k < N) yields exactly k invocations (stated for the runs
\* in which no invocation succeeds or matches the break predicate and the interrupt
\* checker stays false)
C27_BreaksWhenContextDone ==
  (ContextDone /\ TaskKeepsFailing /\ ~loop.interrupted) =>
    /\ Invocations(loop) <= IF loop.doneAfter = 0 THEN 1 ELSE loop.doneAfter
    /\ loop.pc = "returned" =>
          /\ errorsIsError(loop.result, ctxErr(loop))
          /\ (loop.doneAfter # 0 /\ loop.doneAfter < loop.attemptsQuantity) =>
                Len(loop.returns) = loop.doneAfter

\* the loop was built by NewSilentLoopWithParams, which alone sets a prefix
BuiltSilent == loop.prefix # ""

\* C28: an interruptable loop consults the global interrupt checker before every
\* attempt and, as soon as it reports true, returns the error "Loop was canceled:
\* graceful shutdown" without invoking the task again; a loop built by
\* NewSilentLoopWithParams never consults the checker and runs all its attempts
C28_InterruptCheckedBeforeAttempts ==
  loop.pc # "none" =>
    /\ loop.interruptable =>
          /\ loop.pc \in {"task", "wait"} => loop.consulted = Invocations(loop)
          /\ loop.interrupted => Invocations(loop) <= loop.interruptedAfter
          /\ loop.consulted > Invocations(loop) =>
                /\ loop.consulted = Invocations(loop) + 1
                /\ loop.interrupted
                /\ loop.pc = "returned" /\ loop.result = GracefulShutdown
          /\ (loop.pc = "returned" /\ loop.result = GracefulShutdown) =>
                loop.consulted = Invocations(loop) + 1
    /\ BuiltSilent =>
          /\ loop.consulted = 0
          /\ loop.result # GracefulShutdown
          /\ (loop.pc = "returned" /\ loop.ctx = "background"
                /\ loop.breakPredicate = <<>> /\ Successes = {}) =>
                Len(loop.returns) = loop.attemptsQuantity

\* the checker turns true during the second of three attempts: the loop returns
\* the shutdown error after two invocations
C28_Witness ==
  /\ loop.pc = "returned"
  /\ loop.interruptable
  /\ loop.attemptsQuantity = 3
  /\ loop.interruptedAfter = 2
  /\ Len(loop.returns) = 2
  /\ loop.result = GracefulShutdown

(***************************************************************************)
(* log.TeeLogger over a wrapped logger l and a writer out, with a          *)
(* bufio.Writer of bufferSize messages in between.  A message is its       *)
(* number; the writer holds the lines it was given, a line being the       *)
(* timestamp and the message.  A write or a Close of the writer may fail.  *)
(* logged remembers every logging call: the message, its level, and        *)
(* whether the TeeLogger was closed when it was made.                      *)
(***************************************************************************)
MaxMessages == 3
MaxBufferSize == 2

Levels == {"info", "debug"}

\* time.Now().Format(time.DateTime) + " - " + content
Line(content) == <<"timestamp", content>>

NewTeeLogger(notDebug, bufferSize) ==
  [pc |-> "open",
   l |-> [notDebug |-> notDebug, received |-> <<>>, entries |-> <<>>],
   closed |-> FALSE,
   buf |-> <<[size |-> bufferSize, pending |-> <<>>, err |-> FALSE]>>,
   out |-> [lines |-> <<>>, closed |-> FALSE],
   logged |-> <<>>,
   returned |-> "none"]

\* d.l.InfoFWithoutLn / d.l.DebugFWithoutLn: the wrapped logger takes the message
\* and shows it unless it is a debug message and debug output is off
toWrapped(t, level, msg) ==
  [t EXCEPT !.l.received = Append(@, msg),
            !.l.entries = IF level = "debug" /\ t.l.notDebug THEN @ ELSE Append(@, msg)]

\* bufio.Writer.Write: buffered while there is room, else the buffer goes to the
\* writer first; after a failed write the Writer accepts nothing more
bufWrite(t, line, ok) ==
  LET b == t.buf[1]
  IN  IF b.err THEN t
      ELSE IF Len(b.pending) < b.size
        THEN [t EXCEPT !.buf[1].pending = Append(@, line)]
      ELSE IF ok
        THEN [t EXCEPT !.out.lines = @ \o b.pending, !.buf[1].pending = <<line>>]
      ELSE [t EXCEPT !.buf[1].err = TRUE]

writeToFile(t, content, ok) ==
  IF t.closed THEN t
  ELSE IF t.buf = <<>> THEN t
  ELSE bufWrite(t, Line(content), ok)

\* a close that does not flush the buffer first
flushAndCloseWithoutFlush(t, flushOk, closeOk) ==
  IF t.closed THEN [t EXCEPT !.returned = "nil"]
  ELSE IF t.buf = <<>> THEN [t EXCEPT !.pc = "panicked"]
  ELSE IF ~closeOk THEN [t EXCEPT !.buf = <<>>, !.returned = "err"]
  ELSE [t EXCEPT !.buf = <<>>, !.out.closed = TRUE, !.closed = TRUE,
                 !.returned = "nil"]

\* FlushAndClose; d.buf.Flush() on the nil d.buf that a failed Close leaves behind
\* is a nil pointer dereference
flushAndClose(t, flushOk, closeOk) ==
  IF t.closed THEN [t EXCEPT !.returned = "nil"]
  ELSE IF t.buf = <<>> THEN [t EXCEPT !.pc = "panicked"]
  ELSE IF t.buf[1].err \/ (t.buf[1].pending # <<>> /\ ~flushOk)
    THEN [t EXCEPT !.buf[1].err = TRUE, !.returned = "err"]
  ELSE IF ~closeOk
    THEN [t EXCEPT !.out.lines = @ \o t.buf[1].pending, !.buf = <<>>,
                   !.returned = "err"]
  ELSE [t EXCEPT !.out.lines = @ \o t.buf[1].pending, !.buf = <<>>,
                 !.out.closed = TRUE, !.closed = TRUE, !.returned = "nil"]

teeFrame ==
  <<schemas, preValidators, versionFallbacks, transformers, defaultTransformers,
    extensionsValidators, nsetup, last, running, pure, loop>>

InitTee ==
  /\ schemas = <<>>
  /\ preValidators = <<>>
  /\ versionFallbacks = <<>>
  /\ transformers = <<>>
  /\ defaultTransformers = <<>>
  /\ extensionsValidators = <<>>
  /\ nsetup = 0
  /\ last = NoCall
  /\ running = NoRunning
  /\ pure = NoPure
  /\ loop = NoLoop
  /\ tee \in {NewTeeLogger(nd, size) : nd \in BOOLEAN, size \in 1..MaxBufferSize}

\* InfoF, InfoLn, DebugF, DebugLn: the wrapped logger first, then the tee writer
Log(level, ok) ==
  /\ tee.pc = "open"
  /\ Len(tee.logged) < MaxMessages
  /\ LET msg == Len(tee.logged) + 1
         t == [tee EXCEPT !.logged =
                 Append(@, [msg |-> msg, level |-> level, afterClose |-> tee.closed])]
     IN  tee' = writeToFile(toWrapped(t, level, msg), msg, ok)
  /\ UNCHANGED teeFrame

FlushAndClose(flushOk, closeOk) ==
  /\ tee.pc = "open"
  /\ tee' = flushAndClose(tee, flushOk, closeOk)
  /\ UNCHANGED teeFrame

NextTee ==
  \/ \E level \in Levels, ok \in BOOLEAN : Log(level, ok)
  \/ \E flushOk, closeOk \in BOOLEAN : FlushAndClose(flushOk, closeOk)

SpecTee == InitTee /\ [][NextTee]_vars

\* the messages among the lines of the tee writer
InTeeOutput == {tee.out.lines[k][2] : k \in DOMAIN tee.out.lines}

\* C29: every message logged through a TeeLogger before FlushAndClose (debug
\* messages included, even when the wrapped logger suppresses debug output) is in
\* the tee writer's output after FlushAndClose returns, and FlushAndClose closes
\* that writer; a message logged after the close still reaches the wrapped logger
\* but is never written to the tee output
C29_TeeHoldsAllBeforeClose ==
  tee.pc # "none" =>
    /\ tee.closed =>
          /\ tee.out.closed
          /\ \A k \in DOMAIN tee.logged :
               ~tee.logged[k].afterClose => tee.logged[k].msg \in InTeeOutput
    /\ \A k \in DOMAIN tee.logged :
         /\ tee.l.received[k] = tee.logged[k].msg
         /\ tee.logged[k].afterClose => tee.logged[k].msg \notin InTeeOutput

\* debug output is off: a debug message before the close and one after it
C29_Witness ==
  /\ tee.pc = "open"
  /\ tee.closed
  /\ tee.l.notDebug
  /\ Len(tee.logged) = 3
  /\ tee.logged[1].level = "debug" /\ ~tee.logged[1].afterClose
  /\ tee.logged[3].level = "debug" /\ tee.logged[3].afterClose
  /\ 1 \in InTeeOutput
  /\ tee.l.entries = <<2>>
  /\ tee.l.received = <<1, 2, 3>>

(***************************************************************************)
(* The stages of one ValidateWithIndex call, with transformer lists of     *)
(* up to two transformers and a nil entry among them.                      *)
(***************************************************************************)
StageTransformerLists ==
  {<<>>, <<"AdditionalProperties">>,
   <<"AdditionalProperties", "AdditionalPropertiesDisallowFull">>,
   <<"AdditionalPropertiesDisallowFull", "nil", "AdditionalProperties">>}

NextStages ==
  \/ \E i \in RegIndexes, s \in SchemaPool : AddSchema(i, s)
  \/ \E i \in RegIndexes, p \in PreValidatorPool : AddPreValidator(i, p)
  \/ \E e \in ExtensionsValidatorPool : AddExtensionsValidators(<<e>>)
  \/ \E i \in RegIndexes, t \in StageTransformerLists : AddTransformers(i, t)
  \/ \E t \in StageTransformerLists : SetDefaultTransformers(t)
  \/ \E i \in IndexInputs, d \in DocPool, o \in OptionPool, rev \in MapOrders :
       CallValidateWithIndex(i, d, o, rev)
  \/ Returned

SpecStages == Init /\ [][NextStages]_vars

\* the last step of the call
LastStep == StepNames[Len(StepNames)]

\* C30: within one ValidateWithIndex call no stage is re-run: the pre-validator is
\* invoked at most once, each transformer of the selected list is applied at most
\* once, structural validation runs at most once, and a failing stage ends the call
\* in Failed without another attempt
C30_NoStageRerun ==
  last # NoCall =>
    /\ Len(StepsNamed("PreValidator")) <= 1
    /\ Len(StepsNamed("Unmarshal")) <= 1
    /\ Len(StepsNamed("Validate")) <= 1
    /\ HasStep("Transform") =>
         StepsNamed("Transform") =
           [k \in DOMAIN NonNil(ListInForce) |-> Step("Transform", NonNil(ListInForce)[k])]
    /\ Failed_ =>
         /\ LastStep \in {"IsValid", "PreValidator", "NilCheck", "Unmarshal", "Validate",
                           "handler", "handler:empty"}
         /\ ~IsHandlerStep(LastStep) => Len(StepsNamed(LastStep)) = 1
         /\ LastStep = "PreValidator" => PreAnswer.err # NoErr
         /\ LastStep = "Validate" => Violations(InData, last.out.used[1]) # {}

\* a list of two transformers and a nil entry registered for the index, a
\* pre-validator in place, and a document that fails structural validation
C30_Witness ==
  /\ last # NoCall
  /\ HasStep("PreValidator")
  /\ ListInForce = <<"AdditionalPropertiesDisallowFull", "nil", "AdditionalProperties">>
  /\ Len(StepsNamed("Transform")) = 2
  /\ Failed_
  /\ LastStep = "Validate"

(***************************************************************************)
(* ExtensionsValidator.Validate over nested objects.  Every node of the    *)
(* schema declares one rule, named after the node:                         *)
(*   root ("root")  -- value ("value") -- extra ("extra")                  *)
(*                  -- key ("key", an object without properties)           *)
(* and the document holds or omits each of the objects, each with a        *)
(* passphrase the handler accepts or rejects.                              *)
(***************************************************************************)
NodeRules == {"root", "value", "extra", "key"}

RuleOn(rule) == (xRulesExtension :> <<rule>>)

SchemaNested ==
  Node("object", "unset",
       ("passphrase" :> Leaf("string")) @@
       ("value" :>
          Node("object", "unset",
               ("passphrase" :> Leaf("string")) @@
               ("extra" :>
                  Node("object", "unset", ("passphrase" :> Leaf("string")),
                       <<>>, <<>>, {}, RuleOn("extra"))),
               <<>>, <<>>, {}, RuleOn("value"))) @@
       ("key" :> Node("object", "unset", <<>>, <<>>, <<>>, {}, RuleOn("key"))),
       <<>>, <<>>, {}, RuleOn("root"))

Passphrases == {"!not@secret.", "not secret"}

\* an object with a passphrase, and with the field when a value is given for it
Holder(passphrase, field, sub) ==
  ObjV(("passphrase" :> StrV(passphrase)) @@
       (IF sub = <<>> THEN <<>> ELSE (field :> sub[1])))

ExtraObjects == {<<>>} \cup {<<Holder(p, "extra", <<>>)>> : p \in Passphrases}
ValueObjects ==
  {<<>>} \cup {<<Holder(p, "extra", x)>> : p \in Passphrases, x \in ExtraObjects}
KeyObjects == {<<>>} \cup {<<Holder(p, "key", <<>>)>> : p \in Passphrases}

NestedDocuments ==
  {ObjV((IF p = "" THEN <<>> ELSE ("passphrase" :> StrV(p))) @@
        (IF v = <<>> THEN <<>> ELSE ("value" :> v[1])) @@
        (IF k = <<>> THEN <<>> ELSE ("key" :> k[1]))) :
     p \in Passphrases \cup {""}, v \in ValueObjects, k \in KeyObjects}

InitNested ==
  /\ NoValidator
  /\ pure \in {[op |-> "data", ev |-> NewXRulesExtensionsValidator(hs), data |-> d,
                 schema |-> SchemaNested, rev |-> rev] :
                 hs \in SUBSET NodeRules, d \in NestedDocuments, rev \in BOOLEAN}

NextNested == CallExtensionsValidate

SpecNested == InitNested /\ [][NextNested]_vars

\* the fields that lead from the root to the node that declares the rule
PathOf(rule) ==
  CASE rule = "root" -> <<>>
    [] rule = "value" -> <<"value">>
    [] rule = "extra" -> <<"value", "extra">>
    [] rule = "key" -> <<"key">>

\* the data fragment of the node that declares the rule, empty when omitted
RECURSIVE FragmentAlong(_, _)
FragmentAlong(frag, path) ==
  IF path = <<>> THEN frag ELSE FragmentAlong(Fragment(frag, Head(path)), Tail(path))

FragmentOf(rule) == FragmentAlong(<<pure.data>>, PathOf(rule))

Ancestor(r1, r2) ==
  /\ Len(PathOf(r1)) < Len(PathOf(r2))
  /\ SubSeq(PathOf(r2), 1, Len(PathOf(r1))) = PathOf(r1)

NestedRan == pure.op = "ExtensionsValidator.Validate" /\ pure.schema = SchemaNested

\* C31: during extension validation the rules declared on a schema node are run
\* against that node's data fragment before any rule of a descendant property; the
\* first failing handler ends extension validation with the handler's error wrapped
\* under the names of the enclosing fields, and no handler is invoked after it
C31_NodeRulesBeforeDescendants ==
  NestedRan =>
    LET calls == pure.out.calls
        verdict(i) == Handler(calls[i][2], FragmentOf(calls[i][2]))
    IN  /\ \A i, j \in DOMAIN calls :
             Ancestor(calls[i][2], calls[j][2]) => i < j
        /\ \A j \in DOMAIN calls : \A r \in pure.ev.validators :
             Ancestor(r, calls[j][2]) => \E i \in 1..(j - 1) : calls[i][2] = r
        /\ \A i \in DOMAIN calls :
             calls[i] = HandlerCall(calls[i][2], FragmentOf(calls[i][2]))
        /\ \A i \in 1..(Len(calls) - 1) : verdict(i) = NoErr
        /\ pure.out.err = NoErr => \A i \in DOMAIN calls : verdict(i) = NoErr
        /\ pure.out.err # NoErr =>
             /\ calls # <<>>
             /\ pure.out.err = PathOf(calls[Len(calls)][2]) \o verdict(Len(calls))

\* the handlers of root, value and extra registered, root and value accepted and
\* extra rejected: the error names both enclosing fields
C31_Witness ==
  /\ NestedRan
  /\ {"root", "value", "extra"} \subseteq pure.ev.validators
  /\ pure.out.err = <<"value", "extra", "invalid passphrase">>
  /\ \E i, j \in DOMAIN pure.out.calls :
       i < j /\ pure.out.calls[i][2] = "root" /\ pure.out.calls[j][2] = "extra"

\* the handler calls made for the rule
CallsOf(rule) == SelectSeq(pure.out.calls, LAMBDA c : c[2] = rule)

\* C35: during one run of an ExtensionsValidator over a document, each registered
\* handler is invoked at most once for each schema node that declares its rule
C35_HandlerOncePerNode ==
  NestedRan => \A r \in NodeRules : Len(CallsOf(r)) <= 1

\* C36: a rule handler is never invoked with an empty data fragment: when the
\* document omits a property, the rules declared on that property's own schema
\* node are skipped
C36_NoHandlerOnEmptyFragment ==
  NestedRan => \A i \in DOMAIN pure.out.calls : pure.out.calls[i][1] # "handler:empty"

(***************************************************************************)
(* Chained registration calls.  The caller settles on its next call        *)
(* (pure is the call about to be made, with its arguments) and makes it;   *)
(* each call returns v, the one Validator, so the next acts on it too.     *)
(***************************************************************************)
RegistrationCalls ==
  {[op |-> "AddSchema", index |-> i, schema |-> sc] :
     i \in RegIndexes, sc \in SchemaPool}
  \cup {[op |-> "AddPreValidator", index |-> i, validator |-> p] :
           i \in RegIndexes, p \in {NilPreValidator, OwnSchemaPreValidator(<<SchemaOpenKind>>)}}
  \cup {[op |-> "AddVersionFallback", failVersion |-> p[1], fallback |-> p[2]] :
           p \in FallbackPool}
  \cup {[op |-> "AddTransformers", index |-> i, t |-> t] :
           i \in RegIndexes, t \in TransformerLists}
  \cup {[op |-> "SetDefaultTransformers", t |-> t] : t \in TransformerLists}
  \cup {[op |-> "AddExtensionsValidators", validators |-> q] :
           q \in {<<>>} \cup {<<e>> : e \in ExtensionsValidatorPool}
                        \cup {<<e, e>> : e \in ExtensionsValidatorPool}}

NextCall(call) ==
  /\ nsetup < MaxSetup
  /\ pure # call
  /\ pure' = call
  /\ UNCHANGED <<schemas, preValidators, versionFallbacks, transformers,
                 defaultTransformers, extensionsValidators, nsetup, last, running,
                 loop, tee>>

MakeCall ==
  \/ pure.op = "AddSchema" /\ AddSchema(pure.index, pure.schema)
  \/ pure.op = "AddPreValidator" /\ AddPreValidator(pure.index, pure.validator)
  \/ pure.op = "AddVersionFallback"
       /\ AddVersionFallback(pure.failVersion, pure.fallback)
  \/ pure.op = "AddTransformers" /\ AddTransformers(pure.index, pure.t)
  \/ pure.op = "SetDefaultTransformers" /\ SetDefaultTransformers(pure.t)
  \/ pure.op = "AddExtensionsValidators" /\ AddExtensionsValidators(pure.validators)

NextRegistration ==
  \/ \E call \in RegistrationCalls : NextCall(call)
  \/ MakeCall

SpecRegistration == Init /\ [][NextRegistration]_vars

\* m2 is m with the single entry k set to v
EntrySet(m, m2, k, v) ==
  /\ DOMAIN m2 = DOMAIN m \cup {k}
  /\ m2[k] = v
  /\ \A j \in DOMAIN m \ {k} : m2[j] = m[j]

\* the registries a step has changed
Changed ==
  {n \in 1..6 : registry[n] # registry'[n]}

\* a registration call was made in the step
CallMade == nsetup' = nsetup + 1

\* C32: each registration call changes only its own target: AddSchema,
\* AddPreValidator, AddVersionFallback and AddTransformers set the single entry for
\* the given key (the last call for a key wins, AddTransformers replacing the previous
\* list), SetDefaultTransformers replaces the default list, AddExtensionsValidators
\* appends in call order, and every other registry and entry is unchanged
C32_RegistrationChangesOwnTarget ==
  [][CallMade =>
       /\ pure.op = "AddSchema" =>
            EntrySet(schemas, schemas', pure.index, <<pure.schema>>) /\ Changed \subseteq {1}
       /\ pure.op = "AddPreValidator" =>
            EntrySet(preValidators, preValidators', pure.index, pure.validator)
              /\ Changed \subseteq {2}
       /\ pure.op = "AddVersionFallback" =>
            EntrySet(versionFallbacks, versionFallbacks', pure.failVersion, pure.fallback)
              /\ Changed \subseteq {3}
       /\ pure.op = "AddTransformers" =>
            EntrySet(transformers, transformers', pure.index, pure.t)
              /\ Changed \subseteq {4}
       /\ pure.op = "SetDefaultTransformers" =>
            defaultTransformers' = pure.t /\ Changed \subseteq {5}
       /\ pure.op = "AddExtensionsValidators" =>
            /\ extensionsValidators' = extensionsValidators \o pure.validators
            /\ Changed \subseteq {6}]_vars

\* a second list registered for a key that had one, with the schema map, the
\* fallbacks and the other registries as they were made
C32_Witness ==
  /\ nsetup = 2
  /\ pure.op = "AddTransformers"
  /\ pure.t = <<"AdditionalProperties">>
  /\ DOMAIN transformers = {pure.index}
  /\ transformers[pure.index] = pure.t
  /\ schemas = (indexTestKind :> <<SchemaTestKind>>)
  /\ versionFallbacks = ("deckhouse.io/v1alpha1" :> "deckhouse.io/v1")

(***************************************************************************)
(* The caller's index after a call of ValidateWithIndex.                   *)
(***************************************************************************)
\* ValidateWithIndex was called by the caller itself, with an index of its own
WithIndexCalled == last # NoCall /\ last.op \in {"ValidateWithIndex", "ValidateWithIndexAgain"}

\* the direct lookup missed and a non-empty fallback is registered for the version
FallbackConsulted ==
  /\ IsValid(last.index)
  /\ Lookup(last.schemas, last.index) = <<>>
  /\ FallbackOf(last.index.Version) # ""

\* C33: when ValidateWithIndex returns an error, the caller's index holds the same
\* kind and version it held before the call
C33_IndexUnchangedOnError ==
  (WithIndexCalled /\ Failed_) => last.out.index = last.index

\* C33 (amended): after ValidateWithIndex, error or not, the caller's index holds the
\* kind it held before, and the version it held before unless the direct lookup
\* missed and a non-empty fallback is registered for it: then it holds the fallback
C33_IndexRewrittenAtResolution ==
  WithIndexCalled =>
    /\ last.out.index.Kind = last.index.Kind
    /\ last.out.index = IF FallbackConsulted THEN FallbackIndex ELSE last.index

\* a call that found its schema under the fallback and failed in structural
\* validation: the index reports the fallback
C33_Witness ==
  /\ WithIndexCalled
  /\ Failed_
  /\ LastStep = "Validate"
  /\ last.index.Version = "deckhouse.io/v1alpha1"
  /\ last.out.index.Version = "deckhouse.io/v1"

\* the pre-validator registered under the fallback index, nil when there is none
PreUnderFallback ==
  IF FallbackIndex \in DOMAIN last.preValidators
    THEN last.preValidators[FallbackIndex] ELSE NilPreValidator

\* the list in force for the fallback index
ListUnderFallback ==
  IF Lookup(transformers, FallbackIndex) # <<>>
    THEN transformers[FallbackIndex] ELSE defaultTransformers

\* C34: the pre-validator and the transformer list are looked up under the index as
\* it stands after fallback rewriting: when resolution rewrote version v to f, a
\* pre-validator or transformer list registered under (kind, v) is not used and the
\* one registered under (kind, f) is
C34_LookupsUnderRewrittenIndex ==
  (Resolving /\ FallbackConsulted) =>
    /\ HasStep("PreValidator") <=> ~PreUnderFallback.isNil
    /\ HasStep("PreValidator") =>
         LET answer == PreValidate(PreUnderFallback, last.doc,
                                   Lookup(last.schemas, FallbackIndex))
         IN  /\ answer.err # NoErr => last.out.err.chain = answer.err
             /\ (answer.err = NoErr /\ answer.schema = <<>>) =>
                  errorsIs(last.out.err.chain, ErrSchemaNotFound)
             /\ (answer.err = NoErr /\ answer.schema # <<>>) =>
                  last.out.used = <<TransformAll(NonNil(ListUnderFallback), answer.schema[1])>>
    /\ last.out.used # <<>> =>
         [i \in DOMAIN StepsNamed("Transform") |-> StepsNamed("Transform")[i][2]]
           = NonNil(ListUnderFallback)

\* a pre-validator and a transformer are registered under v1alpha1, none under v1;
\* the call with v1alpha1 is validated under v1 and uses neither
C34_Witness ==
  /\ Resolving
  /\ FallbackConsulted
  /\ last.index \in DOMAIN last.preValidators
  /\ ~last.preValidators[last.index].isNil
  /\ NonNil(Lookup(transformers, last.index)) # <<>>
  /\ PreUnderFallback.isNil
  /\ ListUnderFallback = <<>>
  /\ ~HasStep("PreValidator")
  /\ ~HasStep("Transform")
  /\ HasStep("Validate")

(***************************************************************************)
(* Validator.LoadSchemas: the package's LoadSchemas, then AddSchema for    *)
(* every schema it returned.  The Validator holds schemas of its own, one  *)
(* of them under an index the files of the model declare.                  *)
(***************************************************************************)
\* a registry that forgets what it held when schemas are loaded
RECURSIVE addLoadedOnly(_, _)
addLoadedOnly(m, res) ==
  IF res = <<>> THEN <<>>
  ELSE Put(addLoadedOnly(m, SubSeq(res, 1, Len(res) - 1)),
           res[Len(res)].Index, <<res[Len(res)].Schema>>)

\* the loop of Validator.LoadSchemas: v.AddSchema(sc.Index, sc.Schema) in order
RECURSIVE addLoaded(_, _)
addLoaded(m, res) ==
  IF res = <<>> THEN m
  ELSE addLoaded(Put(m, Head(res).Index, <<Head(res).Schema>>), Tail(res))

RegistriesBeforeLoad ==
  {<<>>, (indexTestKind :> <<SchemaTestKind>>),
   (indexTestKind :> <<SchemaTestKind>>) @@
     (SchemaIndex("TestKind", "v1") :> <<SchemaOpenKind>>)}

InitValidatorLoad ==
  /\ schemas \in RegistriesBeforeLoad
  /\ preValidators = <<>>
  /\ versionFallbacks = ("deckhouse.io/v1alpha1" :> "deckhouse.io/v1")
  /\ transformers = <<>>
  /\ defaultTransformers = <<>>
  /\ extensionsValidators = <<>>
  /\ nsetup = 0
  /\ last = NoCall
  /\ running = NoRunning
  /\ pure = NoPure
  /\ loop = NoLoop
  /\ tee = NoTee

ValidatorLoadSchemas(sourceFile, readerOk, file) ==
  LET loaded == LoadSchemas(sourceFile, readerOk, file)
  IN  /\ pure = NoPure
      /\ pure' = [op |-> "Validator.LoadSchemas", readerOk |-> readerOk,
                  file |-> file, schemas |-> schemas, err |-> loaded.err]
      /\ schemas' = IF loaded.err # NoErr THEN schemas
                    ELSE addLoaded(schemas, loaded.res)
      /\ UNCHANGED <<preValidators, versionFallbacks, transformers,
                     defaultTransformers, extensionsValidators, nsetup, last,
                     running, loop, tee>>

NextValidatorLoad ==
  \E f \in SourceFiles, r \in BOOLEAN, c \in SchemaFiles : ValidatorLoadSchemas(f, r, c)

SpecValidatorLoad == InitValidatorLoad /\ [][NextValidatorLoad]_vars

\* the indexes the file declares
Declared(file) ==
  {SchemaIndex(file.Kind, file.Versions[i].Version) : i \in DOMAIN file.Versions}

\* the last entry of the file for the index
LastDeclared(file, index) ==
  LET at == {i \in DOMAIN file.Versions : file.Versions[i].Version = index.Version}
  IN  file.Versions[CHOOSE i \in at : \A j \in at : j <= i]

\* the read, the decoding or the expansion of a declared version fails
LoadFails(readerOk, file) ==
  \/ ~readerOk
  \/ ~file.ok
  \/ \E i \in DOMAIN file.Versions : file.Versions[i].Schema.shape # "schema"

\* C37: Validator.LoadSchemas is all-or-nothing: if it returns an error (read,
\* decode or expansion failure of any declared version) the schema registry is
\* unchanged; if it succeeds, exactly the entries (kind, version) of the declared
\* versions are added or overwritten and no other entry changes
C37_LoadSchemasAllOrNothing ==
  pure.op = "Validator.LoadSchemas" =>
    /\ pure.err # NoErr <=> LoadFails(pure.readerOk, pure.file)
    /\ pure.err # NoErr => schemas = pure.schemas
    /\ pure.err = NoErr =>
         /\ DOMAIN schemas = DOMAIN pure.schemas \cup Declared(pure.file)
         /\ \A k \in DOMAIN pure.schemas \ Declared(pure.file) :
              schemas[k] = pure.schemas[k]
         /\ \A k \in Declared(pure.file) :
              schemas[k] = <<Transform("AdditionalProperties",
                                       LastDeclared(pure.file, k).Schema.schema)>>

\* a file whose first version loads and whose second does not expand, given to a
\* Validator that holds a schema under the first version's index
C37_Witness ==
  /\ pure.op = "Validator.LoadSchemas"
  /\ pure.readerOk
  /\ Len(pure.file.Versions) = 2
  /\ pure.file.Versions[1] = OpenAPISchemaVersion("v1", [shape |-> "schema", schema |-> SchemaTestKind])
  /\ pure.file.Versions[2].Schema.shape = "danglingRef"
  /\ pure.err # NoErr
  /\ SchemaIndex("TestKind", "v1") \in DOMAIN schemas
  /\ schemas[SchemaIndex("TestKind", "v1")] = <<SchemaOpenKind>>

(***************************************************************************)
(* The constructors of Loop given a Params value, nil (the empty pointer)  *)
(* among them, and the run of the loop they return.                        *)
(***************************************************************************)
NewEmptyParams == [attempts |-> 1]

ParamsPool == {<<>>} \cup {<<[attempts |-> n]>> : n \in 1..MaxAttempts}

\* the constructor did not return: a nil pointer was dereferenced
PanickedLoop == [NewLoop(0, FALSE, "") EXCEPT !.pc = "panicked"]

\* NewLoopWithParams(params): name, attempts and wait are read from p, the logger
\* from params itself
LoopWithParams(params) ==
  LET p == IF params = <<>> THEN NewEmptyParams ELSE params[1]
  IN  IF params = <<>> THEN PanickedLoop ELSE NewLoopWithParams(p.attempts)

\* NewSilentLoopWithParams(params): every field is read from p
SilentLoopWithParams(params) ==
  LET p == IF params = <<>> THEN NewEmptyParams ELSE params[1]
  IN  NewSilentLoopWithParams(p.attempts)

InitNewLoop ==
  /\ NoValidator
  /\ pure = NoPure

CallNewLoopWithParams(params) ==
  /\ loop = NoLoop
  /\ loop' = LoopWithParams(params)
  /\ pure' = [op |-> "NewLoopWithParams", params |-> params]
  /\ UNCHANGED <<schemas, preValidators, versionFallbacks, transformers,
                 defaultTransformers, extensionsValidators, nsetup, last, running, tee>>

CallNewSilentLoopWithParams(params) ==
  /\ loop = NoLoop
  /\ loop' = SilentLoopWithParams(params)
  /\ pure' = [op |-> "NewSilentLoopWithParams", params |-> params]
  /\ UNCHANGED <<schemas, preValidators, versionFallbacks, transformers,
                 defaultTransformers, extensionsValidators, nsetup, last, running, tee>>

NextNewLoop ==
  \/ \E params \in ParamsPool : CallNewLoopWithParams(params)
  \/ \E params \in ParamsPool : CallNewSilentLoopWithParams(params)
  \/ NextLoop

SpecNewLoop == InitNewLoop /\ [][NextNewLoop]_vars

\* C38: NewLoopWithParams and NewSilentLoopWithParams accept nil params: they build
\* a loop with the default parameters (one attempt) whose Run executes the task,
\* without panicking
C38_NilParamsAccepted ==
  (pure.op \in {"NewLoopWithParams", "NewSilentLoopWithParams"} /\ pure.params = <<>>) =>
    /\ loop.pc # "panicked"
    /\ loop.attemptsQuantity = 1
    /\ (loop.pc = "returned" /\ loop.result # GracefulShutdown) => Len(loop.returns) = 1

\* C39: FlushAndClose can be called again after any earlier call, including a call
\* in which flushing or closing the writer failed: it never panics, and once a call
\* has succeeded every later call returns nil with the writer closed
C39_FlushAndCloseRepeatable ==
  tee.pc # "none" =>
    /\ tee.pc # "panicked"
    /\ tee.closed => (tee.returned = "nil" /\ tee.out.closed)

(***************************************************************************)
(* One TeeLogger used by several goroutines.  Each call is a sequence of   *)
(* steps: the read of d.closed, which no lock protects, the Lock of        *)
(* bufMutex, and the section under the lock, which ends with the Unlock.   *)
(*   closed, buf, out   the fields of the TeeLogger (buf nil is <<>>, else *)
(*                      the number of messages it holds; out counts the    *)
(*                      messages written and the calls of Close)           *)
(*   bufErr             the error a bufio.Writer keeps after a failed write*)
(*   bufMutex           0, or the goroutine that holds the lock            *)
(*   g[id]              the call goroutine id is in, and where; synced     *)
(*                      once it has held the lock after closed was set     *)
(***************************************************************************)
NoGoroutine == [op |-> "none", pc |-> "idle", synced |-> FALSE]

NewSharedTeeLogger(bufferSize) ==
  [pc |-> "shared", closed |-> FALSE, buf |-> <<0>>, size |-> bufferSize,
   bufErr |-> FALSE,
   out |-> [written |-> 0, closed |-> FALSE, closes |-> 0, lateWrites |-> 0],
   bufMutex |-> 0, g |-> [id \in CallIds |-> NoGoroutine],
   nlog |-> 0, nclose |-> 0, failed |-> FALSE]

InitTeeConcurrent ==
  /\ schemas = <<>>
  /\ preValidators = <<>>
  /\ versionFallbacks = <<>>
  /\ transformers = <<>>
  /\ defaultTransformers = <<>>
  /\ extensionsValidators = <<>>
  /\ nsetup = 0
  /\ last = NoCall
  /\ running = NoRunning
  /\ pure = NoPure
  /\ loop = NoLoop
  /\ tee \in {NewSharedTeeLogger(size) : size \in 1..MaxBufferSize}

\* a goroutine calls a logging method: writeToFile begins
BeginLog(id) ==
  /\ tee.pc = "shared"
  /\ tee.g[id].pc = "idle"
  /\ tee.nlog < MaxMessages
  /\ tee' = [tee EXCEPT !.g[id].op = "log", !.g[id].pc = "check", !.nlog = @ + 1]
  /\ UNCHANGED teeFrame

\* a goroutine calls FlushAndClose
BeginFlushAndClose(id) ==
  /\ tee.pc = "shared"
  /\ tee.g[id].pc = "idle"
  /\ tee.nclose < MaxCalls
  /\ tee' = [tee EXCEPT !.g[id].op = "close", !.g[id].pc = "check", !.nclose = @ + 1]
  /\ UNCHANGED teeFrame

\* what a read of d.closed without the lock may yield: the value, or still false
\* when another goroutine set it and nothing orders that write before this read
ClosedAsReadBy(id) ==
  {tee.closed} \cup (IF tee.closed /\ ~tee.g[id].synced THEN {FALSE} ELSE {})

\* if d.closed { return }
ReadClosed(id, seen) ==
  /\ tee.pc = "shared"
  /\ tee.g[id].pc = "check"
  /\ seen \in ClosedAsReadBy(id)
  /\ tee' = IF seen THEN [tee EXCEPT !.g[id].op = "none", !.g[id].pc = "idle"]
            ELSE [tee EXCEPT !.g[id].pc = "lock"]
  /\ UNCHANGED teeFrame

\* d.bufMutex.Lock()
Lock(id) ==
  /\ tee.pc = "shared"
  /\ tee.g[id].pc = "lock"
  /\ tee.bufMutex = 0
  /\ tee' = [tee EXCEPT !.bufMutex = id, !.g[id].pc = "locked",
                        !.g[id].synced = @ \/ tee.closed]
  /\ UNCHANGED teeFrame

\* d.bufMutex.Unlock() and the return of the call
unlocked(t, id) ==
  [t EXCEPT !.bufMutex = 0, !.g[id].op = "none", !.g[id].pc = "idle"]

\* writeToFile under the lock: nothing when buf is nil, else d.buf.Write
WriteUnderLock(id, ok) ==
  /\ tee.pc = "shared"
  /\ tee.g[id].op = "log"
  /\ tee.g[id].pc = "locked"
  /\ tee' =
       IF tee.buf = <<>> \/ tee.bufErr THEN unlocked(tee, id)
       ELSE IF tee.buf[1] < tee.size
         THEN unlocked([tee EXCEPT !.buf[1] = @ + 1], id)
       ELSE IF ok
         THEN unlocked([tee EXCEPT !.out.written = @ + tee.buf[1], !.buf[1] = 1,
                                   !.out.lateWrites =
                                      IF tee.out.closed THEN @ + 1 ELSE @], id)
       ELSE unlocked([tee EXCEPT !.bufErr = TRUE, !.failed = TRUE], id)
  /\ UNCHANGED teeFrame

\* FlushAndClose under the lock: d.buf.Flush(), d.buf = nil, d.out.Close(),
\* d.closed = true; d.buf.Flush() on a nil d.buf panics
CloseUnderLock(id, flushOk, closeOk) ==
  /\ tee.pc = "shared"
  /\ tee.g[id].op = "close"
  /\ tee.g[id].pc = "locked"
  /\ tee' =
       IF tee.buf = <<>>
         THEN [tee EXCEPT !.pc = "panicked", !.g[id].pc = "panicked", !.bufMutex = 0]
       ELSE IF tee.bufErr \/ (tee.buf[1] > 0 /\ ~flushOk)
         THEN unlocked([tee EXCEPT !.bufErr = TRUE, !.failed = TRUE], id)
       ELSE IF ~closeOk
         THEN unlocked([tee EXCEPT !.out.written = @ + tee.buf[1], !.buf = <<>>,
                                   !.failed = TRUE], id)
       ELSE unlocked([tee EXCEPT !.out.written = @ + tee.buf[1], !.buf = <<>>,
                                 !.out.closed = TRUE, !.out.closes = @ + 1,
                                 !.closed = TRUE, !.g[id].synced = TRUE], id)
  /\ UNCHANGED teeFrame

NextTeeConcurrent ==
  \E id \in CallIds :
    \/ BeginLog(id)
    \/ BeginFlushAndClose(id)
    \/ \E seen \in BOOLEAN : ReadClosed(id, seen)
    \/ Lock(id)
    \/ \E ok \in BOOLEAN : WriteUnderLock(id, ok)
    \/ \E flushOk, closeOk \in BOOLEAN : CloseUnderLock(id, flushOk, closeOk)

SpecTeeConcurrent == InitTeeConcurrent /\ [][NextTeeConcurrent]_vars

\* C40: when log calls and FlushAndClose calls run concurrently on one TeeLogger
\* whose writer does not fail, in every interleaving the writer is closed at most
\* once, no write reaches the buffer or the writer after it was closed, and no call
\* uses the buffer after FlushAndClose released it
C40_ConcurrentCloseSafe ==
  (tee.pc \in {"shared", "panicked"} /\ ~tee.failed) =>
    /\ tee.out.closes <= 1
    /\ tee.out.lateWrites = 0
    /\ tee.out.closed => tee.buf = <<>>
    /\ tee.pc # "panicked"

====
